---- MODULE Spec2Model ----
(***************************************************************************)
(* Prayer-event scheduler (scheduler.py: PrayerScheduler) and the          *)
(* cross-thread task dispatch of PrayerApp (main.py: _run_async,           *)
(* _AsyncDispatcher, refresh_prayer_times and its two handlers).           *)
(*                                                                         *)
(* Time is a counter of ticks; a calendar day is DayLen ticks long.  A     *)
(* zone is a name with a UTC offset in ticks.  Three execution contexts    *)
(* appear: "main" (the Qt event loop), "worker" (the ThreadPoolExecutor)   *)
(* and the scheduler's timer thread (the FireJob / MisfireJob actions).    *)
(***************************************************************************)
EXTENDS Integers, Sequences, FiniteSets, TLC

\* ---------------------------------------------------------------- bounds
MaxTime == 7
MaxTickets == 2
MaxReference == 55

\* ------------------------------------------------------ program constants
PoolSize == 2
DayLen == 7
RefreshOffset == 1
PRAYER_ORDER == <<"Fajr", "Dhuhr", "Asr", "Maghrib", "Isha">>
PrayerCount == Len(PRAYER_ORDER)

\* Offsets within the local day of the five timings of a collaborator
\* response (the reference timetable of the tests, in ticks after midnight).
TimeTable == <<2, 3, 4, 5, 6>>

Zones == {"A", "B"}
SysZone == "A"
UtcOff(z) == IF z = "B" THEN 2 ELSE 0

TicketIds == 1..MaxTickets

\* ------------------------------------------------------------- variables
VARIABLES
    now,                 \* the clock
    app,                 \* "running" | "quit" | "aborted"
    tickets,             \* ticket id -> state of its background operation
    nextTicket,          \* number of tickets created so far, plus one
    live,                \* PrayerApp._async_dispatchers
    pending,             \* ticket whose add_done_callback is still to run (0: none)
    mainQueue,           \* events posted to the Qt main event loop
    dialogs,             \* stack of open modal error dialogs (ticket ids)
    status,              \* text of the status line
    current_prayer_day,  \* PrayerApp.current_prayer_day
    current_weather,     \* PrayerApp.current_weather ("none" for None)
    active_prayer_code,  \* PrayerApp._active_prayer_code
    scheduler,           \* PrayerApp.scheduler (a PrayerScheduler or NoScheduler)
    nextJobId,           \* source of fresh job ids, one block per refresh cycle
    raisedIn,            \* where the last exception that left a handler was raised
    calls,               \* history: handler invocations per ticket
    lastEmitter,         \* history: thread that emitted the last delivered signal
    fired,               \* history: callbacks run by the timer mechanism
    lastApply,           \* history: what the last _handle_refresh_success call found
    orphans,             \* scheduler instances no longer referenced but still running
    lastCall,            \* history of the unit specifications: the last direct call
    current_location,    \* PrayerApp.current_location
    config,              \* PrayerApp._config (location part) and its persisted file
    adhan,               \* _active_adhan_dialog, the notification boxes, the adhan player
    quran,               \* _pending_surah_number, _surah_cache, the surah shown, downloads
    window               \* the main window, _allow_window_close, _tray_hint_shown

vars == <<now, app, tickets, nextTicket, live, pending, mainQueue, dialogs,
          status, current_prayer_day, current_weather, active_prayer_code, scheduler,
          nextJobId, raisedIn, calls, lastEmitter, fired, lastApply, orphans,
          lastCall,
                   current_location, config, adhan, quran, window>>

\* ------------------------------------------------------------ time, days
LocalDate(inst, z) == (inst + UtcOff(z)) \div DayLen

\* tzinfo.localize(datetime(date, hh:mm)) as an absolute instant
Localize(d, off, z) == d * DayLen + off - UtcOff(z)

\* date.today(): the date of the system's local zone
Today(t) == LocalDate(t, SysZone)

NoDay == [date |-> -1, zone |-> "none"]

\* PrayerDay.prayers as built by fetch_prayer_times
Prayers(day) ==
    [i \in 1..PrayerCount |->
        [name |-> PRAYER_ORDER[i], time |-> Localize(day.date, TimeTable[i], day.zone)]]

\* ------------------------------------------------------ timing strings
\* a timing string is a sequence of characters; a tick is one hour of the
\* model's day of DayLen hours
DigitChars == <<"0", "1", "2", "3", "4", "5", "6", "7", "8", "9">>
IsDigit(ch) == \E i \in 1..Len(DigitChars) : DigitChars[i] = ch
DigitVal(ch) == (CHOOSE i \in 1..Len(DigitChars) : DigitChars[i] = ch) - 1
IsTimeChar(ch) == IsDigit(ch) \/ ch = ":"

\* timings.get(prayer, "00:00")
DefaultTime == <<"0", "0", ":", "0", "0">>

RECURSIVE IntOf(_)
\* int(text) of a non-empty run of digits
IntOf(digits) ==
    IF Len(digits) = 1 THEN DigitVal(digits[1])
    ELSE 10 * IntOf(SubSeq(digits, 1, Len(digits) - 1)) + DigitVal(digits[Len(digits)])

MinutesPerHour == 60

\* "".join(ch for ch in time_str if ch.isdigit() or ch == ":")[:5]
Clean(str) ==
    LET kept == SelectSeq(str, IsTimeChar)
    IN IF Len(kept) > 5 THEN SubSeq(kept, 1, 5) ELSE kept

\* PrayerTimesService._parse_time_string: the instant, or ValueError from
\* the unpacking of the split, from int() or from datetime()
ParseTimeString(str, z, date) ==
    LET c0 == Clean(str)
        c == IF Len(c0) # 5 THEN DefaultTime ELSE c0
        colons == {i \in 1..5 : c[i] = ":"}
        k == CHOOSE i \in colons : TRUE
        bad == [exc |-> "ValueError", time |-> 0]
    IN IF Cardinality(colons) # 1 THEN bad
       ELSE IF k = 1 \/ k = 5 THEN bad
       ELSE LET hour == IntOf(SubSeq(c, 1, k - 1))
                minute == IntOf(SubSeq(c, k + 1, 5))
            IN IF hour >= DayLen \/ minute >= MinutesPerHour THEN bad
               ELSE [exc |-> "none", time |-> Localize(date, hour, z)]

\* a timing of the response: present or not, and its text
Timing(str) == [present |-> TRUE, str |-> str]
MissingTiming == [present |-> FALSE, str |-> <<>>]

\* the part of fetch_prayer_times after the response is accepted: the five
\* entries in PRAYER_ORDER, or the ValueError of a timing
FetchPrayerTimes(timings, z, date) ==
    LET parsed == [i \in 1..PrayerCount |->
                      ParseTimeString(IF timings[i].present THEN timings[i].str
                                      ELSE DefaultTime, z, date)]
    IN IF \E i \in 1..PrayerCount : parsed[i].exc # "none"
       THEN [exc |-> "ValueError", prayers |-> <<>>]
       ELSE [exc |-> "none",
             prayers |-> [i \in 1..PrayerCount |->
                             [name |-> PRAYER_ORDER[i], time |-> parsed[i].time]]]

RECURSIVE NextPrayerFrom(_, _, _)
\* the for loop of PrayerDay.next_prayer from entry i on: the index of the
\* entry returned, 0 for None
NextPrayerFrom(prayers, i, nw) ==
    IF i > Len(prayers) THEN 0
    ELSE IF prayers[i].time > nw THEN i
    ELSE NextPrayerFrom(prayers, i + 1, nw)

\* PrayerDay.next_prayer(now)
NextPrayer(prayers, nw) == NextPrayerFrom(prayers, 1, nw)

NextRefreshTimeUtcDate(reference, z) ==
    Localize(LocalDate(reference, "A") + 1, RefreshOffset, z)

\* PrayerApp._next_refresh_time
NextRefreshTime(reference, z) ==
    Localize(LocalDate(reference, z) + 1, RefreshOffset, z)

\* ------------------------------------------------- the timer mechanism
\* (BackgroundScheduler as used by PrayerScheduler: a job store of one-off
\* jobs, each [id, kind, run, name]; broken tells that removing a job fails
\* for a reason other than the job not being there)

NoScheduler == [tz |-> "none", running |-> FALSE, store |-> {},
                jobs |-> <<>>, refresh_job_id |-> 0, broken |-> FALSE]

\* PrayerScheduler.__init__
NewScheduler(tz) == [tz |-> tz, running |-> FALSE, store |-> {},
                     jobs |-> <<>>, refresh_job_id |-> 0, broken |-> FALSE]

\* BackgroundScheduler.start(): refuses a scheduler that already runs
SchedulerStart(s) ==
    IF s.running THEN [s |-> s, exc |-> "SchedulerAlreadyRunningError"]
    ELSE [s |-> [s EXCEPT !.running = TRUE], exc |-> "none"]

\* BackgroundScheduler.shutdown(wait=False): refuses a scheduler that does
\* not run; otherwise the timer mechanism stops and drops its jobs
SchedulerShutdown(s) ==
    IF ~s.running THEN [s |-> s, exc |-> "SchedulerNotRunningError"]
    ELSE [s |-> [s EXCEPT !.running = FALSE, !.store = {}], exc |-> "none"]

StartCallUnguarded(s) == SchedulerStart(s)

\* PrayerScheduler.start: the scheduler it leaves and what it raises
StartCall(s) == IF ~s.running THEN SchedulerStart(s) ELSE [s |-> s, exc |-> "none"]

\* PrayerScheduler.start
Start(s) == StartCall(s).s

\* PrayerScheduler.shutdown: the scheduler it leaves and what it raises; the
\* wrapper's own handles are left as they are
ShutdownCall(s) == IF s.running THEN SchedulerShutdown(s) ELSE [s |-> s, exc |-> "none"]

\* PrayerScheduler.shutdown
Shutdown(s) == ShutdownCall(s).s

\* self._scheduler.remove_job(job_id): raises JobLookupError for an id the
\* job store does not hold, and whatever a job store that is broken raises
RemoveJob(s, id) ==
    IF s.broken THEN [s |-> s, exc |-> "Exception"]
    ELSE IF \E j \in s.store : j.id = id
    THEN [s |-> [s EXCEPT !.store = {j \in s.store : j.id # id}], exc |-> "none"]
    ELSE [s |-> s, exc |-> "JobLookupError"]

\* self._scheduler.add_job(callback, trigger=DateTrigger(run_date), args)
AddJob(s, id, kind, run, name) ==
    [s EXCEPT !.store = @ \cup {[id |-> id, kind |-> kind, run |-> run, name |-> name]}]

SuppressNothing(exc) == FALSE

\* suppress_not_found.__exit__: TRUE when the exception is swallowed
SuppressNotFound(exc) == exc = "JobLookupError"

RECURSIVE ClearLoop(_, _)
\* the for loop of _clear_prayer_jobs over the ids still to visit
ClearLoop(s, ids) ==
    IF ids = <<>> THEN [s |-> s, exc |-> "none"]
    ELSE LET r == RemoveJob(s, Head(ids))
         IN IF r.exc # "none" /\ ~SuppressNotFound(r.exc)
            THEN [s |-> r.s, exc |-> r.exc]
            ELSE ClearLoop(r.s, Tail(ids))

ClearPrayerJobsKeep(s) == [s |-> [s EXCEPT !.jobs = <<>>], exc |-> "none"]

\* PrayerScheduler._clear_prayer_jobs
ClearPrayerJobs(s) ==
    LET r == ClearLoop(s, s.jobs)
    IN IF r.exc # "none" THEN r
       ELSE [s |-> [r.s EXCEPT !.jobs = <<>>], exc |-> "none"]

IsUpcomingOrNow(t, nw) == ~(t < nw)

\* the test of schedule_prayers: "if info.time <= now: continue"
IsUpcoming(t, nw) == ~(t <= nw)

RECURSIVE ArmLoop(_, _, _, _, _)
\* the for loop of schedule_prayers from entry i on; the job of entry i gets
\* the fresh id  id + i - 1
ArmLoop(s, prayers, i, nw, id) ==
    IF i > Len(prayers) THEN s
    ELSE IF ~IsUpcoming(prayers[i].time, nw)
         THEN ArmLoop(s, prayers, i + 1, nw, id)
         ELSE ArmLoop([AddJob(s, id + i - 1, "prayer", prayers[i].time, prayers[i].name)
                          EXCEPT !.jobs = Append(@, id + i - 1)],
                      prayers, i + 1, nw, id)

SchedulePrayersNoClear(s, prayers, nw, id) ==
    [s |-> ArmLoop(s, prayers, 1, nw, id), id |-> id + Len(prayers), exc |-> "none"]

\* PrayerScheduler.schedule_prayers
SchedulePrayers(s, prayers, nw, id) ==
    LET c == ClearPrayerJobs(s)
    IN IF c.exc # "none" THEN [s |-> c.s, id |-> id, exc |-> c.exc]
       ELSE [s |-> ArmLoop(c.s, prayers, 1, nw, id), id |-> id + Len(prayers),
             exc |-> "none"]

ScheduleRefreshKeep(s, next_run, id) ==
    [s |-> [AddJob(s, id, "refresh", next_run, "refresh") EXCEPT !.refresh_job_id = id],
     id |-> id + 1, exc |-> "none"]

\* PrayerScheduler.schedule_refresh
ScheduleRefresh(s, next_run, id) ==
    LET r == IF s.refresh_job_id # 0 THEN RemoveJob(s, s.refresh_job_id)
             ELSE [s |-> s, exc |-> "none"]
    IN IF r.exc # "none" THEN [s |-> s, id |-> id + 1, exc |-> r.exc]
       ELSE [s |-> [AddJob(r.s, id, "refresh", next_run, "refresh")
                       EXCEPT !.refresh_job_id = id],
             id |-> id + 1, exc |-> "none"]

\* PrayerApp._ensure_scheduler; the instance it replaces has been shut down
\* and is referenced no more
EnsureScheduler(s, tz) ==
    IF s.tz # "none" /\ s.tz = tz THEN s
    ELSE Start(NewScheduler(tz))

RetiredNoShutdown(s, tz) ==
    IF s.tz = "none" \/ s.tz = tz THEN {} ELSE {s}

\* the instance _ensure_scheduler stops referencing, as it leaves it
Retired(s, tz) ==
    IF s.tz = "none" \/ s.tz = tz THEN {} ELSE {Shutdown(s)}

\* an unreferenced instance lives on only through its timer thread
StillRunning(S) == {o \in S : o.running}

\* the scheduling part of PrayerApp._handle_refresh_success: the scheduler it
\* leaves, the next fresh job id, and where an exception was raised
ArmCycle(s, day, nw, id) ==
    LET e == EnsureScheduler(s, day.zone)
        p == SchedulePrayers(e, Prayers(day), nw, id)
    IN IF p.exc # "none"
       THEN [s |-> p.s, id |-> p.id, exc |-> p.exc, where |-> "schedule_prayers"]
       ELSE LET r == ScheduleRefresh(p.s, NextRefreshTime(Prayers(day)[1].time, day.zone), p.id)
            IN [s |-> r.s, id |-> r.id, exc |-> r.exc,
                where |-> IF r.exc # "none" THEN "schedule_refresh" ELSE "none"]

\* ------------------------------------------------------------ dispatching
\* name holds the emitting thread of an outcome, the origin of a refresh
OutcomeEvent(t, emitter) == [kind |-> "outcome", t |-> t, name |-> emitter]
RefreshEvent(origin) == [kind |-> "refresh", t |-> 0, name |-> origin]
PrayerEvent(name) == [kind |-> "prayer", t |-> 0, name |-> name]

\* out is what task() returned ("ok") or the class of what it raised, stage
\* the step of task() that raised, day and weather the result, wx how the
\* weather fetch went
NoTicket == [st |-> "unused", out |-> "none", day |-> NoDay, cb |-> FALSE, src |-> "none",
             stage |-> "none", wx |-> "none", weather |-> "none"]
\* a ticket whose handler has returned: its dispatcher is gone (deleteLater)
Handled == [NoTicket EXCEPT !.st = "handled"]

\* the result tuple of task() held by ticket record tk
ResultOf(tk) == [day |-> tk.day, weather |-> tk.weather]

\* _resolve_location returns or raises RuntimeError (no location known)
LocationOutcomes == {"ok", "RuntimeError"}
\* fetch_prayer_times returns, or raises RequestException (HTTP, network) or
\* RuntimeError (the response carries a code other than 200)
FetchOutcomes == {"ok", "RequestException", "RuntimeError"}
\* fetch_weather returns, raises, or is skipped for want of coordinates
WeatherOutcomes == {"ok", "raises", "skipped"}

\* task(): _resolve_location, then fetch_prayer_times, then fetch_weather
\* inside try/except (skipped without coordinates); loc, fetch and wx are
\* what the three collaborators do
TaskOutcome(loc, fetch, wx) ==
    IF loc # "ok" THEN [out |-> loc, stage |-> "location", weather |-> "none"]
    ELSE IF fetch # "ok" THEN [out |-> fetch, stage |-> "fetch", weather |-> "none"]
    ELSE [out |-> "ok", stage |-> "none", weather |-> IF wx = "ok" THEN "info" ELSE "none"]
NoCalls == [succ |-> 0, err |-> 0, thr |-> "none"]

\* what a _handle_refresh_success call for a result in zone tz finds in
\* scheduler s
Found(s, tz) ==
    [reused |-> s.tz = tz,
     refresh |-> IF s.tz # tz \/ s.refresh_job_id = 0 THEN "none"
                 ELSE IF \E j \in s.store : j.id = s.refresh_job_id THEN "live"
                 ELSE "gone",
     stale |-> s.tz = tz /\ \E i \in 1..Len(s.jobs) : \A j \in s.store : j.id # s.jobs[i]]
NeverApplied == [reused |-> FALSE, refresh |-> "none", stale |-> FALSE]

\* ---------------------------------------------------------------- location
\* a LocationInfo is [city, country, tag]; tag tells the values apart and is
\* "none" for None
NoLocation == [city |-> "", country |-> "", tag |-> "none"]
IsNone(l) == l.tag = "none"

\* self._config: the auto_location flag, the "location" entry (NoLocation
\* when it is no dict) and the "location" entry of the file last saved
StartConfig == [auto_location |-> TRUE, location |-> NoLocation, saved |-> NoLocation]

\* build_location_from_config: a LocationInfo of whatever the "location"
\* entry holds, None when the entry is no dict
BuildLocationFromConfig(cfg) ==
    IF IsNone(cfg.location) THEN NoLocation
    ELSE [cfg.location EXCEPT !.tag = "config"]

\* _update_config_location: the "location" entry is overwritten and the
\* whole config is saved
UpdateConfigLocation(cfg, l) == [cfg EXCEPT !.location = l, !.saved = l]

ResolveLocationNoFallback(cfg, cur, detect) ==
    IF cfg.auto_location /\ ~IsNone(detect)
    THEN [loc |-> detect, exc |-> "none", current_location |-> cur,
          config |-> UpdateConfigLocation(cfg, detect)]
    ELSE IF ~IsNone(cur) /\ cur.city # "" /\ cur.country # ""
    THEN [loc |-> cur, exc |-> "none", current_location |-> cur, config |-> cfg]
    ELSE [loc |-> NoLocation, exc |-> "RuntimeError", current_location |-> cur,
          config |-> cfg]

\* PrayerApp._resolve_location with detect what detect_location_from_ip
\* returns (NoLocation when it raises): the location returned or the
\* exception raised, and current_location and _config as the call leaves them
ResolveLocation(cfg, cur, detect) ==
    IF cfg.auto_location
    THEN IF ~IsNone(detect)
         THEN [loc |-> detect, exc |-> "none", current_location |-> cur,
               config |-> UpdateConfigLocation(cfg, detect)]
         ELSE IF ~IsNone(cur)
         THEN [loc |-> cur, exc |-> "none", current_location |-> cur, config |-> cfg]
         ELSE LET fallback == BuildLocationFromConfig(cfg)
              IN IF ~IsNone(fallback)
                 THEN [loc |-> fallback, exc |-> "none", current_location |-> fallback,
                       config |-> cfg]
                 ELSE [loc |-> NoLocation, exc |-> "RuntimeError",
                       current_location |-> cur, config |-> cfg]
    ELSE IF ~IsNone(cur)
         THEN IF cur.city = "" \/ cur.country = ""
              THEN [loc |-> NoLocation, exc |-> "RuntimeError", current_location |-> cur,
                    config |-> cfg]
              ELSE [loc |-> cur, exc |-> "none", current_location |-> cur, config |-> cfg]
         ELSE [loc |-> NoLocation, exc |-> "RuntimeError", current_location |-> cur,
               config |-> cfg]

\* no _resolve_location call yet: auto, detect, current and configured are
\* what the call found, loc and exc what it returned or raised
NoResolve == [auto |-> FALSE, detect |-> NoLocation, current |-> NoLocation,
              configured |-> NoLocation, loc |-> NoLocation, exc |-> "none"]

\* no fetch_prayer_times call yet: timings, zone and date are the response
\* and the arguments, exc and prayers what the call raised or returned
NoFetch == [timings |-> <<>>, zone |-> "none", date |-> 0, exc |-> "none",
            prayers |-> <<>>]

\* no direct call yet: op is the method called, running whether the
\* scheduler ran when it was called, arg, zone and ret the argument and the
\* result of a function, mark the next fresh job id when shutdown last
\* returned
\* ------------------------------------------------- the adhan notification
\* boxes are the QMessageBox objects made so far, by number: "visible",
\* "closed" (hidden, its deletion posted to the event loop by
\* WA_DeleteOnClose) or "destroyed"; active_adhan_dialog is the number of
\* the box _active_adhan_dialog refers to, 0 for None; playing is whether the
\* player plays a clip
NoAdhan == [active_adhan_dialog |-> 0, boxes |-> <<>>, playing |-> FALSE]

\* the body of the notification, which set_status shows
NotificationBody ==
    [Fajr |-> "It's time for Fajr.", Dhuhr |-> "It's time for Dhuhr.",
     Asr |-> "It's time for Asr.", Maghrib |-> "It's time for Maghrib.",
     Isha |-> "It's time for Isha."]

CloseBoxLeftOpen(boxes, id) == boxes

\* if dialog.isVisible(): dialog.close()
CloseBox(boxes, id) ==
    IF boxes[id] = "visible" THEN [boxes EXCEPT ![id] = "closed"] ELSE boxes

\* AdhanPlayer.play: the clip starts, stopping a clip that plays without
\* playback_finished, or the file is missing and nothing changes
Play(a, started) == IF started THEN [a EXCEPT !.playing = TRUE] ELSE a

\* _show_adhan_notification, the part after set_status
ShowAdhanNotification(a) ==
    LET dialog == a.active_adhan_dialog
        boxes == IF dialog # 0 THEN CloseBox(a.boxes, dialog) ELSE a.boxes
    IN [a EXCEPT !.boxes = Append(boxes, "visible"),
                 !.active_adhan_dialog = Len(boxes) + 1]

\* _on_adhan_playback_finished, apart from _active_prayer_code
OnAdhanPlaybackFinished(a) ==
    LET dialog == a.active_adhan_dialog
    IN [a EXCEPT !.playing = FALSE,
                 !.active_adhan_dialog = 0,
                 !.boxes = IF dialog # 0 THEN CloseBox(a.boxes, dialog) ELSE a.boxes]

\* --------------------------------------------------------- the surah reader
\* display is what the reader shows; downloads are the tasks of _run_async
\* whose outcome is not delivered yet, issued counts the tasks submitted
NoQuran == [pending_surah_number |-> 0, surah_cache |-> {},
            display |-> [surah |-> 0, kind |-> "none", request |-> 0],
            downloads |-> {}, issued |-> 0]

\* ------------------------------------------------------- the main window
\* tray_icon: _setup_tray_icon found a system tray; hints counts the
\* minimize hints shown; closed: a close event was accepted and the window
\* has not been shown again
StartWindow == [tray_icon |-> TRUE, visible |-> TRUE, allow_window_close |-> FALSE,
                tray_hint_shown |-> FALSE, hints |-> 0, closed |-> FALSE]

HandleWindowCloseHinting(w, available) ==
    IF ~w.tray_icon \/ ~available THEN [window |-> w, ret |-> TRUE]
    ELSE IF w.allow_window_close THEN [window |-> w, ret |-> TRUE]
    ELSE [window |-> [w EXCEPT !.visible = FALSE, !.hints = @ + 1], ret |-> FALSE]

\* _handle_window_close, with available what isSystemTrayAvailable()
\* answers: the window as the call leaves it and the value returned
HandleWindowClose(w, available) ==
    IF ~w.tray_icon \/ ~available THEN [window |-> w, ret |-> TRUE]
    ELSE IF w.allow_window_close THEN [window |-> w, ret |-> TRUE]
    ELSE [window |-> [w EXCEPT !.visible = FALSE,
                               !.hints = IF w.tray_hint_shown THEN @ ELSE @ + 1,
                               !.tray_hint_shown = TRUE],
          ret |-> FALSE]

\* ------------------------------------------- the request of fetch_prayer_times
\* an Optional[float]: None, or a number
NoFloat == [some |-> FALSE, val |-> 0]
Float(v) == [some |-> TRUE, val |-> v]

\* _safe_float on a value of the response: a number, a text that is no
\* number, or nothing
SafeFloat(value) == IF value.kind = "number" THEN Float(value.val) ELSE NoFloat

\* a or b on two Optional[float]: None and 0.0 are both false
OrFloat(a, b) == IF a.some /\ a.val # 0 THEN a ELSE b

\* the names pytz.timezone accepts
KnownZones == Zones \cup {"UTC"}

\* PrayerTimesService._resolve_timezone: "none" is a name that is None or
\* empty, meta.isdict is false when the response has null for its meta
ResolveTimezone(timezone, meta) ==
    LET reported == IF meta.isdict THEN meta.timezone ELSE "none"
        named == IF reported # "none" THEN reported ELSE timezone
        timezone_name == IF named = "none" THEN "UTC" ELSE named
    IN IF timezone_name \in KnownZones THEN timezone_name ELSE "UTC"

\* the two endpoints of the collaborator
ALADHAN_TIMINGS_URL == "timings"
ALADHAN_TIMINGS_BY_CITY_URL == "timingsByCity"

\* fetch_prayer_times(location, date) on an accepted response with these
\* timings and this meta: the requests issued, the exception raised and the
\* PrayerDay returned (its entries, the zone of their tzinfo, its location)
FetchPrayerDay(location, timings, meta, date) ==
    LET use_city_lookup == ~location.latitude.some \/ ~location.longitude.some
        requests == <<IF use_city_lookup THEN ALADHAN_TIMINGS_BY_CITY_URL
                      ELSE ALADHAN_TIMINGS_URL>>
        timezone_name == ResolveTimezone(location.timezone, meta)
        parsed == FetchPrayerTimes(timings, timezone_name, date)
        failed(exc) == [requests |-> requests, exc |-> exc, prayers |-> <<>>,
                        tzinfo |-> "none", location |-> location]
    IN IF parsed.exc # "none" THEN failed(parsed.exc)
       ELSE IF ~meta.isdict THEN failed("AttributeError")
       ELSE [requests |-> requests, exc |-> "none", prayers |-> parsed.prayers,
             tzinfo |-> timezone_name,
             location |-> [location EXCEPT
                 !.latitude = OrFloat(SafeFloat(meta.latitude), location.latitude),
                 !.longitude = OrFloat(SafeFloat(meta.longitude), location.longitude),
                 !.timezone = timezone_name]]

\* no such call yet: location and meta are the argument and the response,
\* the rest what the call did
NoRequest == [location |-> NoLocation, meta |-> [isdict |-> FALSE], requests |-> <<>>,
              exc |-> "none", prayers |-> <<>>, tzinfo |-> "none",
              returned |-> NoLocation]

NoCall == [op |-> "none", running |-> FALSE, arg |-> 0, zone |-> "none", ret |-> 0,
           mark |-> 0, resolve |-> NoResolve, fetch |-> NoFetch, request |-> NoRequest]

\* every dispatcher is created by _run_async, which only the main context calls
DispatcherThread == "main"

ConnectionTypeDirect(emitter, receiver) == "direct"

\* success.connect / error.connect without a connection type: a signal
\* emitted from the receiver's own thread calls the slot in place, a signal
\* emitted from another thread is queued to the receiver's event loop
ConnectionType(emitter, receiver) ==
    IF emitter = receiver THEN "direct" ELSE "queued"

Running == {t \in DOMAIN tickets : tickets[t].st = "running"}

Init ==
    /\ now = 0
    /\ app = "running"
    /\ tickets = [t \in TicketIds |-> NoTicket]
    /\ nextTicket = 1
    /\ live = {}
    /\ pending = 0
    /\ mainQueue = <<RefreshEvent("startup")>>
    /\ dialogs = <<>>
    /\ status = "idle"
    /\ current_prayer_day = NoDay
    /\ current_weather = "none"
    /\ active_prayer_code = "none"
    /\ scheduler = NoScheduler
    /\ nextJobId = 1
    /\ raisedIn = "none"
    /\ calls = [t \in TicketIds |-> NoCalls]
    /\ lastEmitter = "none"
    /\ fired = {}
    /\ lastApply = NeverApplied
    /\ orphans = {}
    /\ lastCall = NoCall
    /\ config = StartConfig
    /\ current_location = BuildLocationFromConfig(config)
    /\ adhan = NoAdhan
    /\ quran = NoQuran
    /\ window = StartWindow

\* _AsyncDispatcher._handle_success running PrayerApp._handle_refresh_success
\* with the result tuple, on thread thr
HandleSuccess(t, thr, emitter, result) ==
    LET day == result.day
        a == ArmCycle(scheduler, day, now, nextJobId)
    IN /\ calls' = [calls EXCEPT ![t].succ = @ + 1, ![t].thr = thr]
       /\ lastEmitter' = emitter
       /\ current_prayer_day' = day
       /\ current_weather' = result.weather
       /\ status' = "updated"
       /\ scheduler' = a.s
       /\ nextJobId' = a.id
       /\ lastApply' = Found(scheduler, day.zone)
       /\ orphans' = orphans \cup StillRunning(Retired(scheduler, day.zone))
       /\ raisedIn' = a.where
       /\ live' = live \ {t}
       /\ tickets' = [tickets EXCEPT ![t] = Handled]
       /\ app' \in (IF a.exc # "none" THEN {"running", "aborted"} ELSE {app})
       /\ UNCHANGED dialogs

RefreshErrorEffectForgetting(t, out) ==
    /\ status' = IF out = "RuntimeError" THEN "error_location" ELSE "error_fetch"
    /\ dialogs' = Append(dialogs, t)
    /\ current_prayer_day' = NoDay
    /\ current_weather' = "none"
    /\ UNCHANGED <<scheduler, nextJobId, lastApply, raisedIn, app, orphans>>

RefreshErrorEffectClearing(t, out) ==
    /\ status' = IF out = "RuntimeError" THEN "error_location" ELSE "error_fetch"
    /\ dialogs' = Append(dialogs, t)
    /\ scheduler' = [scheduler EXCEPT !.store = {}, !.jobs = <<>>, !.refresh_job_id = 0]
    /\ UNCHANGED <<current_prayer_day, current_weather, nextJobId, lastApply, raisedIn, app, orphans>>

\* PrayerApp._handle_refresh_error
RefreshErrorEffect(t, out) ==
    /\ status' = IF out = "RuntimeError" THEN "error_location" ELSE "error_fetch"
    /\ dialogs' = Append(dialogs, t)
    /\ UNCHANGED <<current_prayer_day, current_weather, scheduler, nextJobId, lastApply, raisedIn, app, orphans>>

\* _AsyncDispatcher._handle_error running PrayerApp._handle_refresh_error with
\* the exception out, on thread thr, up to the modal QMessageBox.warning
HandleError(t, thr, emitter, out) ==
    /\ calls' = [calls EXCEPT ![t].err = @ + 1, ![t].thr = thr]
    /\ lastEmitter' = emitter
    /\ RefreshErrorEffect(t, out)
    /\ tickets' = [tickets EXCEPT ![t] = [Handled EXCEPT !.st = "handling"]]
    /\ UNCHANGED live

DeliverSwapped(t, thr, emitter, out, result) ==
    IF out = "ok" THEN HandleError(t, thr, emitter, out)
    ELSE HandleSuccess(t, thr, emitter, result)

DeliverBoth(t, thr, emitter, out, result) ==
    IF out = "ok" THEN HandleSuccess(t, thr, emitter, result)
    ELSE /\ calls' = [calls EXCEPT ![t].err = @ + 1, ![t].succ = @ + 1, ![t].thr = thr]
         /\ lastEmitter' = emitter
         /\ RefreshErrorEffect(t, out)
         /\ tickets' = [tickets EXCEPT ![t] = [Handled EXCEPT !.st = "handling"]]
         /\ UNCHANGED live

\* _done: error.emit(exc) for an exception, success.emit(result) otherwise,
\* reaching the connected slot on thread thr
Deliver(t, thr, emitter, out, result) ==
    IF out = "ok" THEN HandleSuccess(t, thr, emitter, result)
    ELSE HandleError(t, thr, emitter, out)

\* the modal dialog of _handle_refresh_error returns and the finally clause
\* of _handle_error runs
CloseDialog ==
    /\ app = "running"
    /\ pending = 0
    /\ dialogs # <<>>
    /\ LET t == dialogs[Len(dialogs)]
       IN /\ live' = live \ {t}
          /\ tickets' = [tickets EXCEPT ![t] = Handled]
    /\ dialogs' = SubSeq(dialogs, 1, Len(dialogs) - 1)
    /\ UNCHANGED <<now, app, nextTicket, pending, mainQueue, status, current_prayer_day, current_weather,
                   active_prayer_code, scheduler, nextJobId, raisedIn, calls, lastEmitter, fired, lastApply, orphans, lastCall,
                   current_location, config, adhan, quran, window>>

\* refresh_prayer_times with _run_async up to executor.submit; rejected is
\* the case of submit raising RuntimeError
RefreshPrayerTimes(rejected, src) ==
    /\ nextTicket \in DOMAIN tickets
    /\ status' = "updating"
    /\ live' = live \cup {nextTicket}
    /\ nextTicket' = nextTicket + 1
    /\ IF rejected
       THEN /\ tickets' = [tickets EXCEPT ![nextTicket].st = "rejected"]
            /\ pending' = 0
            /\ raisedIn' = "submit"
            /\ app' \in {"running", "aborted"}
       ELSE /\ tickets' = [tickets EXCEPT ![nextTicket].st = "queued", ![nextTicket].src = src]
            /\ pending' = nextTicket
            /\ UNCHANGED <<raisedIn, app>>
    /\ UNCHANGED <<now, dialogs, current_prayer_day, current_weather, active_prayer_code, scheduler,
                   nextJobId, calls, lastEmitter, fired, lastApply, orphans, lastCall,
                   current_location, config, adhan, quran, window>>

\* the refresh button or the tray's refresh entry
ManualRefresh ==
    /\ app = "running"
    /\ pending = 0
    /\ \E rejected \in BOOLEAN : RefreshPrayerTimes(rejected, "manual")
    /\ UNCHANGED mainQueue

\* the main loop runs a posted refresh_prayer_times (the start-up single shot
\* or the one posted by the refresh job)
TimerRefresh ==
    /\ app = "running"
    /\ pending = 0
    /\ mainQueue # <<>>
    /\ Head(mainQueue).kind = "refresh"
    /\ \E rejected \in BOOLEAN : RefreshPrayerTimes(rejected, Head(mainQueue).name)
    /\ mainQueue' = Tail(mainQueue)

\* future.add_done_callback(_done), the last statement of _run_async: a
\* future that is already done runs _done at once on the calling thread
AddDoneCallback ==
    /\ app = "running"
    /\ pending # 0
    /\ pending' = 0
    /\ IF tickets[pending].st = "done"
       THEN IF ConnectionType("main", DispatcherThread) = "direct"
            THEN /\ Deliver(pending, "main", "main", tickets[pending].out,
                            ResultOf(tickets[pending]))
                 /\ UNCHANGED mainQueue
            ELSE /\ mainQueue' = Append(mainQueue, OutcomeEvent(pending, "main"))
                 /\ tickets' = [tickets EXCEPT ![pending].st = "posted"]
                 /\ UNCHANGED <<app, live, dialogs, status, current_prayer_day, current_weather, scheduler,
                                nextJobId, raisedIn, calls, lastEmitter, lastApply, orphans>>
       ELSE /\ tickets' = [tickets EXCEPT ![pending].cb = TRUE]
            /\ UNCHANGED <<app, live, dialogs, status, current_prayer_day, current_weather, scheduler,
                           nextJobId, raisedIn, calls, lastEmitter, lastApply, orphans, mainQueue>>
    /\ UNCHANGED <<now, nextTicket, active_prayer_code, fired, lastCall,
                   current_location, config, adhan, quran, window>>

\* a pool worker picks the task up; task() reads date.today()
StartWork(t) ==
    /\ app = "running"
    /\ tickets[t].st = "queued"
    /\ Cardinality(Running) < PoolSize
    /\ tickets' = [tickets EXCEPT ![t].st = "running",
                                  ![t].day = [date |-> Today(now), zone |-> "none"]]
    /\ UNCHANGED <<now, app, nextTicket, live, pending, mainQueue, dialogs, status,
                   current_prayer_day, current_weather, active_prayer_code, scheduler, nextJobId,
                   raisedIn, calls, lastEmitter, fired, lastApply, orphans, lastCall,
                   current_location, config, adhan, quran, window>>

\* task() returns or raises on the worker; with the callback registered the
\* worker runs _done, which emits the dispatcher's signal
WorkEnds(t, loc, fetch, wx, zone) ==
    /\ tickets[t].st = "running"
    /\ LET r == TaskOutcome(loc, fetch, wx)
           day == IF r.out = "ok" THEN [tickets[t].day EXCEPT !.zone = zone] ELSE NoDay
           done == [tickets[t] EXCEPT !.out = r.out, !.day = day, !.stage = r.stage,
                                      !.wx = IF r.out = "ok" THEN wx ELSE "none",
                                      !.weather = r.weather]
       IN IF ~tickets[t].cb
          THEN /\ tickets' = [tickets EXCEPT ![t] = [done EXCEPT !.st = "done"]]
               /\ UNCHANGED <<app, live, dialogs, status, current_prayer_day,
                              current_weather, scheduler, nextJobId, raisedIn, calls,
                              lastEmitter, lastApply, orphans, mainQueue>>
          ELSE IF ConnectionType("worker", DispatcherThread) = "direct"
               THEN /\ Deliver(t, "worker", "worker", r.out, ResultOf(done))
                    /\ UNCHANGED mainQueue
               ELSE /\ tickets' = [tickets EXCEPT ![t] = [done EXCEPT !.st = "posted"]]
                    /\ mainQueue' = Append(mainQueue, OutcomeEvent(t, "worker"))
                    /\ UNCHANGED <<app, live, dialogs, status, current_prayer_day,
                                   current_weather, scheduler, nextJobId, raisedIn, calls,
                                   lastEmitter, lastApply, orphans>>
    /\ UNCHANGED <<now, nextTicket, pending, active_prayer_code, fired, lastCall,
                   current_location, config, adhan, quran, window>>

\* the work of ticket t ends while the application runs
FinishWork(t, loc, fetch, wx, zone) ==
    /\ app = "running"
    /\ WorkEnds(t, loc, fetch, wx, zone)

\* the main loop runs the slot of a queued dispatcher signal
DeliverOutcome ==
    /\ app = "running"
    /\ pending = 0
    /\ mainQueue # <<>>
    /\ Head(mainQueue).kind = "outcome"
    /\ LET t == Head(mainQueue).t
       IN Deliver(t, "main", Head(mainQueue).name, tickets[t].out, ResultOf(tickets[t]))
    /\ mainQueue' = Tail(mainQueue)
    /\ UNCHANGED <<now, nextTicket, pending, active_prayer_code, fired, lastCall,
                   current_location, config, adhan, quran, window>>

\* _handle_prayer_trigger(name): the code is recorded, the player is asked
\* to play (started: whether the clip starts), the notification is shown
PrayerTriggerEffect(name, started) ==
    /\ active_prayer_code' = name
    /\ status' = NotificationBody[name]
    /\ adhan' = ShowAdhanNotification(Play(adhan, started))

\* the main loop runs the call posted by _on_prayer_trigger:
\* _handle_prayer_trigger(name), with a clip that starts
HandlePrayerTrigger ==
    /\ app = "running"
    /\ pending = 0
    /\ mainQueue # <<>>
    /\ Head(mainQueue).kind = "prayer"
    /\ PrayerTriggerEffect(Head(mainQueue).name, TRUE)
    /\ mainQueue' = Tail(mainQueue)
    /\ UNCHANGED <<now, app, tickets, nextTicket, live, pending, dialogs,
                   current_prayer_day, current_weather, scheduler, nextJobId, raisedIn, calls, lastEmitter, fired, lastApply, orphans, lastCall,
                   current_location, config, quran, window>>

\* ------------------------------------------------------ the timer thread
\* the jobs a timer thread still watches: those of the running instances
Jobs ==
    (IF scheduler.running THEN scheduler.store ELSE {})
        \cup UNION {o.store : o \in orphans}

\* what the job's callback does on the scheduler's thread: _on_prayer_trigger
\* or the refresh lambda, each a QTimer.singleShot(0, ...) towards the main loop
Callback(j) == IF j.kind = "prayer" THEN PrayerEvent(j.name) ELSE RefreshEvent("job")

\* a one-off job reaches its run date: it leaves the job store and its
\* callback runs on the timer thread; reach tells whether the call that
\* QTimer.singleShot(0, ...) queues goes to the main event loop
FireJobPost(j, reach) ==
    /\ app = "running"
    /\ j \in Jobs
    /\ j.run = now
    /\ scheduler' = [scheduler EXCEPT !.store = @ \ {j}]
    /\ orphans' = {[o EXCEPT !.store = @ \ {j}] : o \in orphans}
    /\ mainQueue' = IF reach THEN Append(mainQueue, Callback(j)) ELSE mainQueue
    /\ fired' = fired \cup {[kind |-> j.kind, name |-> j.name, run |-> j.run, at |-> now]}
    /\ UNCHANGED <<now, app, tickets, nextTicket, live, pending, dialogs, status,
                   current_prayer_day, current_weather, active_prayer_code, nextJobId, raisedIn, calls, lastEmitter, lastApply, lastCall,
                   current_location, config, adhan, quran, window>>

\* a job fires and the call its callback queues reaches the main loop
FireJob(j) == FireJobPost(j, TRUE)

\* a job added with a run date already passed is dropped as missed, its
\* callback is not run
MisfireJob(j) ==
    /\ app = "running"
    /\ j \in Jobs
    /\ j.run < now
    /\ scheduler' = [scheduler EXCEPT !.store = @ \ {j}]
    /\ orphans' = {[o EXCEPT !.store = @ \ {j}] : o \in orphans}
    /\ UNCHANGED <<now, app, tickets, nextTicket, live, pending, mainQueue, dialogs, status,
                   current_prayer_day, current_weather, active_prayer_code, nextJobId, raisedIn, calls, lastEmitter,
                   fired, lastApply, lastCall,
                   current_location, config, adhan, quran, window>>

\* time passes.  A tick is long against what the main loop and the timer
\* thread need: the timer thread fires a due job at its instant, and the main
\* loop has run the calls posted to it (a worker's task may take any time)
Tick ==
    /\ app = "running"
    /\ now < MaxTime
    /\ pending = 0
    /\ mainQueue = <<>>
    /\ \A j \in Jobs : j.run > now
    /\ now' = now + 1
    /\ UNCHANGED <<app, tickets, nextTicket, live, pending, mainQueue, dialogs, status,
                   current_prayer_day, current_weather, active_prayer_code, scheduler, nextJobId, raisedIn,
                   calls, lastEmitter, fired, lastApply, orphans, lastCall,
                   current_location, config, adhan, quran, window>>

\* PrayerApp._cleanup (the scheduler part)
Cleanup(s) == IF s.tz # "none" THEN Shutdown(s) ELSE s

\* _quit_from_tray: closing the window is allowed, quit() ends every event
\* loop, the open modal dialogs return and their handlers finish, then
\* aboutToQuit runs _cleanup, which also stops the player: a clip that plays
\* ends with playback_finished
QuitFromTray ==
    /\ app = "running"
    /\ pending = 0
    /\ app' = "quit"
    /\ live' = live \ {dialogs[i] : i \in 1..Len(dialogs)}
    /\ tickets' = [t \in DOMAIN tickets |->
                      IF tickets[t].st = "handling"
                      THEN Handled ELSE tickets[t]]
    /\ dialogs' = <<>>
    /\ scheduler' = Cleanup(scheduler)
    /\ window' = [window EXCEPT !.allow_window_close = TRUE]
    /\ IF adhan.playing
       THEN /\ adhan' = OnAdhanPlaybackFinished(adhan)
            /\ active_prayer_code' = "none"
       ELSE UNCHANGED <<adhan, active_prayer_code>>
    /\ UNCHANGED <<now, nextTicket, pending, mainQueue, status, current_prayer_day, current_weather,
                   nextJobId, raisedIn, calls, lastEmitter, fired, lastApply, orphans, lastCall,
                   current_location, config, quran>>

Next ==
    \/ Tick
    \/ ManualRefresh
    \/ TimerRefresh
    \/ AddDoneCallback
    \/ \E t \in TicketIds : StartWork(t)
    \/ \E t \in TicketIds, loc \in LocationOutcomes, fetch \in {"ok", "RequestException"},
          z \in Zones :
          FinishWork(t, loc, fetch, "ok", z)
    \/ DeliverOutcome
    \/ CloseDialog
    \/ HandlePrayerTrigger
    \/ \E j \in Jobs : FireJob(j)
    \/ \E j \in Jobs : MisfireJob(j)
    \/ QuitFromTray

\* task() ends in one of three ways for its callers: a result, a
\* RuntimeError, another exception; Next takes one cause of each
Spec == Init /\ [][Next]_vars

\* the same program with every outcome of the three collaborators of task()
CycleNext ==
    \/ Tick
    \/ ManualRefresh
    \/ TimerRefresh
    \/ AddDoneCallback
    \/ \E t \in TicketIds : StartWork(t)
    \/ \E t \in TicketIds, loc \in LocationOutcomes, fetch \in FetchOutcomes,
          wx \in WeatherOutcomes, z \in Zones :
          FinishWork(t, loc, fetch, wx, z)
    \/ DeliverOutcome
    \/ CloseDialog
    \/ HandlePrayerTrigger
    \/ \E j \in Jobs : FireJob(j)
    \/ \E j \in Jobs : MisfireJob(j)
    \/ QuitFromTray

CycleSpec == Init /\ [][CycleNext]_vars

\* _cleanup calls executor.shutdown(wait=False): a work that runs is not
\* interrupted, it ends after the event loop has returned and its _done emits
\* the dispatcher's signal towards a loop that runs no more
WorkAfterQuit(t, loc, fetch, wx, zone) ==
    /\ app = "quit"
    /\ WorkEnds(t, loc, fetch, wx, zone)

LiveNext ==
    \/ Next
    \/ \E t \in TicketIds, loc \in LocationOutcomes, fetch \in {"ok", "RequestException"},
          z \in Zones :
          WorkAfterQuit(t, loc, fetch, "ok", z)

\* the main loop takes the event at the head of its queue, of the given kind
Consumes(kind) ==
    /\ app = "running"
    /\ pending = 0
    /\ mainQueue # <<>>
    /\ Head(mainQueue).kind = kind
    /\ mainQueue' = Tail(mainQueue)

\* _run_async reaches its last statement, future.add_done_callback
RunAsyncReturns ==
    /\ app = "running"
    /\ pending # 0
    /\ pending' = 0

\* the Qt event loop, while it runs, gets to every call posted to it, and
\* _run_async runs to its end.  Consumes("outcome") and RunAsyncReturns are
\* the steps of DeliverOutcome and AddDoneCallback as seen from the queue and
\* from pending, with the same guards
MainLoopFairness ==
    /\ WF_pending(RunAsyncReturns)
    /\ WF_mainQueue(Consumes("outcome"))
    /\ WF_mainQueue(Consumes("prayer"))
    /\ WF_vars(TimerRefresh)

LiveSpec == Init /\ [][LiveNext]_vars /\ MainLoopFairness

\* where the call queued by QTimer.singleShot(0, f) on the timer thread
\* goes.  A bound method of the application object is queued to the thread
\* of that object, the main loop.  A lambda has no receiver object: the call
\* is queued to the calling thread, whose event loop never runs, unless the
\* binding redirects it to the main loop
SingleShotReaches(j) == IF j.kind = "prayer" THEN BOOLEAN ELSE {TRUE}

\* a job fires, with every place its queued call can go to
TriggerFire(j) == \E reach \in SingleShotReaches(j) : FireJobPost(j, reach)

TriggerNext ==
    \/ Tick
    \/ ManualRefresh
    \/ TimerRefresh
    \/ AddDoneCallback
    \/ \E t \in TicketIds : StartWork(t)
    \/ \E t \in TicketIds, loc \in LocationOutcomes, fetch \in {"ok", "RequestException"},
          z \in Zones :
          FinishWork(t, loc, fetch, "ok", z)
    \/ DeliverOutcome
    \/ CloseDialog
    \/ HandlePrayerTrigger
    \/ \E j \in Jobs : TriggerFire(j)
    \/ \E j \in Jobs : MisfireJob(j)
    \/ QuitFromTray

TriggerSpec == Init /\ [][TriggerNext]_vars /\ MainLoopFairness

\* the executor and _run_async alone, with one submission more than the pool
\* has workers: the clock stands still, every work resolves one location and
\* one zone, and a work item may never return
MaxPoolTickets == 3
PoolTickets == 1..MaxPoolTickets

PoolInit ==
    /\ now = 0
    /\ app = "running"
    /\ tickets = [t \in PoolTickets |-> NoTicket]
    /\ nextTicket = 1
    /\ live = {}
    /\ pending = 0
    /\ mainQueue = <<RefreshEvent("startup")>>
    /\ dialogs = <<>>
    /\ status = "idle"
    /\ current_prayer_day = NoDay
    /\ current_weather = "none"
    /\ active_prayer_code = "none"
    /\ scheduler = NoScheduler
    /\ nextJobId = 1
    /\ raisedIn = "none"
    /\ calls = [t \in PoolTickets |-> NoCalls]
    /\ lastEmitter = "none"
    /\ fired = {}
    /\ lastApply = NeverApplied
    /\ orphans = {}
    /\ lastCall = NoCall
    /\ config = StartConfig
    /\ current_location = BuildLocationFromConfig(config)
    /\ adhan = NoAdhan
    /\ quran = NoQuran
    /\ window = StartWindow

\* a free worker of the pool takes the oldest or any queued work item
WorkerTakes == \E t \in PoolTickets : StartWork(t)

PoolNext ==
    \/ ManualRefresh
    \/ TimerRefresh
    \/ AddDoneCallback
    \/ WorkerTakes
    \/ \E t \in PoolTickets, fetch \in {"ok", "RequestException"} :
          FinishWork(t, "ok", fetch, "ok", SysZone)
    \/ DeliverOutcome
    \/ CloseDialog
    \/ QuitFromTray

\* the main loop keeps running its events and an idle worker takes queued
\* work; nothing makes a work item return
PoolSpec == PoolInit /\ [][PoolNext]_vars /\ MainLoopFairness /\ WF_tickets(WorkerTakes)

\* ---------------------------------------------------- unit specifications
\* everything but lastCall: the application itself does not move
appVars == <<now, app, tickets, nextTicket, live, pending, mainQueue, dialogs,
             status, current_prayer_day, current_weather, active_prayer_code, scheduler,
             nextJobId, raisedIn, calls, lastEmitter, fired, lastApply, orphans,
             current_location, config, adhan, quran, window>>

\* _next_refresh_time(reference) called with an aware datetime of zone z
NextRefreshTimeCall(reference, z) ==
    /\ lastCall' = [NoCall EXCEPT !.op = "_next_refresh_time", !.arg = reference,
                                  !.zone = z, !.ret = NextRefreshTime(reference, z)]
    /\ UNCHANGED appVars

RefreshTimeNext ==
    \E reference \in 0..MaxReference, z \in Zones : NextRefreshTimeCall(reference, z)

RefreshTimeSpec == Init /\ [][RefreshTimeNext]_vars

\* task() on a pool worker reaches _resolve_location, and the main thread
\* applies the settings dialog and stores the location of a result
DetectedLocation == [city |-> "Makkah", country |-> "SA", tag |-> "ip"]
Detections == {NoLocation, DetectedLocation}
ManualLocations ==
    {[city |-> c, country |-> k, tag |-> "manual"] : c \in {"", "Cairo"}, k \in {"", "EG"}}

locFrame == <<now, app, tickets, nextTicket, live, pending, mainQueue, dialogs, status,
              current_prayer_day, current_weather, active_prayer_code, scheduler,
              nextJobId, raisedIn, calls, lastEmitter, fired, lastApply, orphans,
              adhan, quran, window>>

LocationInit ==
    /\ now = 0
    /\ app = "running"
    /\ tickets = [t \in TicketIds |-> NoTicket]
    /\ nextTicket = 1
    /\ live = {}
    /\ pending = 0
    /\ mainQueue = <<>>
    /\ dialogs = <<>>
    /\ status = "idle"
    /\ current_prayer_day = NoDay
    /\ current_weather = "none"
    /\ active_prayer_code = "none"
    /\ scheduler = NoScheduler
    /\ nextJobId = 1
    /\ raisedIn = "none"
    /\ calls = [t \in TicketIds |-> NoCalls]
    /\ lastEmitter = "none"
    /\ fired = {}
    /\ lastApply = NeverApplied
    /\ orphans = {}
    /\ lastCall = NoCall
    /\ \E auto \in BOOLEAN, l \in {NoLocation} \cup ManualLocations :
          config = [auto_location |-> auto, location |-> l, saved |-> l]
    /\ current_location = BuildLocationFromConfig(config)
    /\ adhan = NoAdhan
    /\ quran = NoQuran
    /\ window = StartWindow

\* task(): location = self._resolve_location(), on a pool worker
ResolveLocationCall(detect) ==
    /\ LET r == ResolveLocation(config, current_location, detect)
       IN /\ current_location' = r.current_location
          /\ config' = r.config
          /\ lastCall' = [NoCall EXCEPT
                             !.op = "_resolve_location",
                             !.resolve = [auto |-> config.auto_location,
                                          detect |-> detect,
                                          current |-> current_location,
                                          configured |-> BuildLocationFromConfig(config),
                                          loc |-> r.loc, exc |-> r.exc]]
    /\ UNCHANGED locFrame

\* on_success of the settings dialog, on the main thread: the flag, and the
\* manual location when automatic location is off and one was entered
ApplySettings(auto, manual) ==
    /\ IF ~auto /\ ~IsNone(manual)
       THEN /\ current_location' = manual
            /\ config' = [UpdateConfigLocation(config, manual) EXCEPT !.auto_location = auto]
       ELSE /\ current_location' = current_location
            /\ config' = [config EXCEPT !.auto_location = auto, !.saved = config.location]
    /\ lastCall' = [NoCall EXCEPT !.op = "settings"]
    /\ UNCHANGED locFrame

\* _handle_refresh_success, on the main thread, stores the location of the
\* result whose task resolved it last
StoreLocation ==
    /\ lastCall.op = "_resolve_location"
    /\ lastCall.resolve.exc = "none"
    /\ current_location' = lastCall.resolve.loc
    /\ lastCall' = [NoCall EXCEPT !.op = "_handle_refresh_success"]
    /\ UNCHANGED config
    /\ UNCHANGED locFrame

LocationNext ==
    \/ \E detect \in Detections : ResolveLocationCall(detect)
    \/ \E auto \in BOOLEAN, manual \in {NoLocation} \cup ManualLocations :
          ApplySettings(auto, manual)
    \/ StoreLocation

LocationSpec == LocationInit /\ [][LocationNext]_vars

\* fetch_prayer_times on a response of the collaborator, then next_prayer on
\* the day it returned
MaxNowArg == 14
FetchDate == 1

\* timing texts of a response: the reference timetable, a time after
\* midnight, a text with a zone suffix, a text of four characters and an hour
\* no day has
ReferenceTimes ==
    [i \in 1..PrayerCount |-> <<"0", DigitChars[TimeTable[i] + 1], ":", "0", "0">>]
AfterMidnight == <<"0", "1", ":", "0", "0">>
WithSuffix(str) == str \o <<" ", "(", "E", "E", "T", ")">>
ShortText == <<"5", ":", "0", "0">>
NoSuchHour == <<"0", "9", ":", "0", "0">>

TimingsOf(i) ==
    {Timing(ReferenceTimes[i]), Timing(WithSuffix(ReferenceTimes[i])),
     Timing(AfterMidnight), Timing(ShortText), Timing(NoSuchHour), MissingTiming}

Responses == {tm \in [1..PrayerCount -> UNION {TimingsOf(i) : i \in 1..PrayerCount}] :
                 \A i \in 1..PrayerCount : tm[i] \in TimingsOf(i)}

PrayerDayInit ==
    /\ now = 0
    /\ app = "running"
    /\ tickets = [t \in TicketIds |-> NoTicket]
    /\ nextTicket = 1
    /\ live = {}
    /\ pending = 0
    /\ mainQueue = <<>>
    /\ dialogs = <<>>
    /\ status = "idle"
    /\ current_prayer_day = NoDay
    /\ current_weather = "none"
    /\ active_prayer_code = "none"
    /\ scheduler = NoScheduler
    /\ nextJobId = 1
    /\ raisedIn = "none"
    /\ calls = [t \in TicketIds |-> NoCalls]
    /\ lastEmitter = "none"
    /\ fired = {}
    /\ lastApply = NeverApplied
    /\ orphans = {}
    /\ config = StartConfig
    /\ current_location = BuildLocationFromConfig(config)
    /\ adhan = NoAdhan
    /\ quran = NoQuran
    /\ window = StartWindow
    /\ \E tm \in Responses, z \in Zones :
          lastCall = [NoCall EXCEPT
                         !.op = "response",
                         !.fetch = [NoFetch EXCEPT !.timings = tm, !.zone = z,
                                                   !.date = FetchDate]]

\* fetch_prayer_times(location, target_date) on the response
FetchPrayerTimesCall ==
    /\ lastCall.op = "response"
    /\ LET r == FetchPrayerTimes(lastCall.fetch.timings, lastCall.fetch.zone,
                                 lastCall.fetch.date)
       IN lastCall' = [lastCall EXCEPT !.op = "fetch_prayer_times",
                                       !.fetch.exc = r.exc,
                                       !.fetch.prayers = r.prayers]
    /\ UNCHANGED appVars

\* prayer_day.next_prayer(nw) on the day returned
NextPrayerCall(nw) ==
    /\ lastCall.op \in {"fetch_prayer_times", "next_prayer"}
    /\ lastCall.fetch.exc = "none"
    /\ lastCall' = [lastCall EXCEPT !.op = "next_prayer", !.arg = nw,
                                    !.ret = NextPrayer(lastCall.fetch.prayers, nw)]
    /\ UNCHANGED appVars

PrayerDayNext ==
    \/ FetchPrayerTimesCall
    \/ \E nw \in 0..MaxNowArg : NextPrayerCall(nw)

PrayerDaySpec == PrayerDayInit /\ [][PrayerDayNext]_vars

\* the notification of a prayer alone: triggers run on the main loop, the
\* user clicks a button of a box on screen, the event loop deletes a closed
\* box, the clip ends
MaxBoxes == 3
adhanFrame == <<now, app, tickets, nextTicket, live, pending, mainQueue, dialogs,
                current_prayer_day, current_weather, scheduler, nextJobId, raisedIn,
                calls, lastEmitter, fired, lastApply, orphans, current_location, config,
                quran, window>>

\* _handle_prayer_trigger(name), with a clip that starts or does not
RunPrayerTrigger(name, started) ==
    /\ Len(adhan.boxes) < MaxBoxes
    /\ PrayerTriggerEffect(name, started)
    /\ lastCall' = [NoCall EXCEPT !.op = "_handle_prayer_trigger"]
    /\ UNCHANGED adhanFrame

\* handle_click of box id: Snooze stops the player, whose playback_finished
\* runs _on_adhan_playback_finished at once when a clip played; box.close()
ButtonClicked(id, button) ==
    /\ id \in DOMAIN adhan.boxes
    /\ adhan.boxes[id] = "visible"
    /\ LET ends == button = "Snooze" /\ adhan.playing
           stopped == IF ends THEN OnAdhanPlaybackFinished(adhan) ELSE adhan
       IN /\ adhan' = [stopped EXCEPT !.boxes = CloseBox(stopped.boxes, id)]
          /\ active_prayer_code' = IF ends THEN "none" ELSE active_prayer_code
    /\ lastCall' = [NoCall EXCEPT !.op = button, !.arg = id]
    /\ UNCHANGED status
    /\ UNCHANGED adhanFrame

\* the event loop deletes closed box id: its destroyed signal runs
\* _on_adhan_dialog_destroyed
BoxDestroyed(id) ==
    /\ id \in DOMAIN adhan.boxes
    /\ adhan.boxes[id] = "closed"
    /\ adhan' = [adhan EXCEPT !.boxes[id] = "destroyed", !.active_adhan_dialog = 0]
    /\ lastCall' = [NoCall EXCEPT !.op = "_on_adhan_dialog_destroyed", !.arg = id]
    /\ UNCHANGED <<status, active_prayer_code>>
    /\ UNCHANGED adhanFrame

\* the clip ends: playback_finished runs _on_adhan_playback_finished
PlaybackEnds ==
    /\ adhan.playing
    /\ adhan' = OnAdhanPlaybackFinished(adhan)
    /\ active_prayer_code' = "none"
    /\ lastCall' = [NoCall EXCEPT !.op = "_on_adhan_playback_finished"]
    /\ UNCHANGED status
    /\ UNCHANGED adhanFrame

Deletes == \E id \in 1..MaxBoxes : BoxDestroyed(id)

AdhanNext ==
    \/ \E name \in DOMAIN NotificationBody, started \in BOOLEAN : RunPrayerTrigger(name, started)
    \/ \E id \in 1..MaxBoxes, button \in {"Snooze", "Dismiss"} : ButtonClicked(id, button)
    \/ Deletes
    \/ PlaybackEnds

\* the event loop keeps running: a posted deletion is carried out
AdhanSpec == Init /\ [][AdhanNext]_vars /\ WF_adhan(Deletes)

\* the surah reader alone: requests of the user in any order, and the
\* outcomes of the downloads delivered on the main thread in any order
MaxSurah == 2
MaxRequests == 3
quranFrame == <<now, app, tickets, nextTicket, live, pending, mainQueue, dialogs, status,
                current_prayer_day, current_weather, active_prayer_code, scheduler,
                nextJobId, raisedIn, calls, lastEmitter, fired, lastApply, orphans,
                current_location, config, adhan, window>>

\* _handle_quran_surah_request(surah_number): requests are numbered as they
\* are issued, a download carries the number of its request
HandleQuranSurahRequest(surah_number) ==
    /\ quran.issued < MaxRequests
    /\ IF surah_number < 1 \/ surah_number > MaxSurah
       THEN quran' = quran
       ELSE IF surah_number \in quran.surah_cache
       THEN quran' = [quran EXCEPT
                         !.pending_surah_number = surah_number,
                         !.issued = @ + 1,
                         !.display = [surah |-> surah_number, kind |-> "text",
                                      request |-> quran.issued + 1]]
       ELSE quran' = [quran EXCEPT
                         !.pending_surah_number = surah_number,
                         !.issued = @ + 1,
                         !.display = [surah |-> surah_number, kind |-> "loading",
                                      request |-> quran.issued + 1],
                         !.downloads = @ \cup {[request |-> quran.issued + 1,
                                                surah |-> surah_number]}]
    /\ lastCall' = [NoCall EXCEPT !.op = "_handle_quran_surah_request",
                                  !.arg = surah_number]
    /\ UNCHANGED quranFrame

\* on_success(text) or on_error(exc) of download d runs on the main thread
SurahOutcome(d, ok) ==
    /\ d \in quran.downloads
    /\ IF quran.pending_surah_number # d.surah
       THEN quran' = [quran EXCEPT !.downloads = @ \ {d}]
       ELSE IF ok
       THEN quran' = [quran EXCEPT
                         !.downloads = @ \ {d},
                         !.surah_cache = @ \cup {d.surah},
                         !.display = [surah |-> d.surah, kind |-> "text",
                                      request |-> d.request]]
       ELSE quran' = [quran EXCEPT
                         !.downloads = @ \ {d},
                         !.display = [surah |-> d.surah, kind |-> "error",
                                      request |-> d.request]]
    /\ lastCall' = [NoCall EXCEPT !.op = IF ok THEN "on_success" ELSE "on_error",
                                  !.arg = d.request]
    /\ UNCHANGED quranFrame

Downloads == [request : 1..MaxRequests, surah : 1..MaxSurah]

SurahNext ==
    \/ \E surah_number \in 0..(MaxSurah + 1) : HandleQuranSurahRequest(surah_number)
    \/ \E d \in Downloads, ok \in BOOLEAN : SurahOutcome(d, ok)

SurahSpec == Init /\ [][SurahNext]_vars

\* the application at one instant, with a user who closes, hides and shows
\* the main window
windowFrame == <<now, app, tickets, nextTicket, live, pending, mainQueue, dialogs, status,
                 current_prayer_day, current_weather, active_prayer_code, scheduler,
                 nextJobId, raisedIn, calls, lastEmitter, fired, lastApply, orphans,
                 current_location, config, adhan, quran>>

\* PrayerTimesWindow.closeEvent: the event is ignored when the handler
\* returns False, else the window closes; the application does not quit with
\* its last window
CloseEvent(available) ==
    /\ app \in {"running", "quit"}
    /\ window.visible
    /\ LET r == HandleWindowClose(window, available)
       IN /\ window' = IF r.ret THEN [r.window EXCEPT !.visible = FALSE, !.closed = TRUE]
                       ELSE r.window
          /\ lastCall' = [NoCall EXCEPT !.op = "closeEvent", !.running = r.ret]
    /\ UNCHANGED windowFrame

\* the tray entries Show Window and Hide Window
ShowMainWindow(show) ==
    /\ app = "running"
    /\ window.tray_icon
    /\ window.visible # show
    /\ window' = [window EXCEPT !.visible = show,
                                 !.closed = IF show THEN FALSE ELSE @]
    /\ lastCall' = [NoCall EXCEPT !.op = "tray"]
    /\ UNCHANGED windowFrame

WindowNext ==
    \/ ManualRefresh
    \/ TimerRefresh
    \/ AddDoneCallback
    \/ \E t \in TicketIds : StartWork(t)
    \/ \E t \in TicketIds, fetch \in {"ok", "RequestException"} :
          FinishWork(t, "ok", fetch, "ok", SysZone)
    \/ DeliverOutcome
    \/ CloseDialog
    \/ QuitFromTray
    \/ \E available \in BOOLEAN : CloseEvent(available)
    \/ \E show \in BOOLEAN : ShowMainWindow(show)

WindowSpec == Init /\ [][WindowNext]_vars

\* fetch_prayer_times on any location and any meta of an accepted response
\* that carries the reference timetable
UnknownZone == "Mars/Olympus"
LocationArgs ==
    [city : {"Tangier"}, country : {"MA"},
     latitude : {NoFloat, Float(0), Float(1)}, longitude : {NoFloat, Float(0), Float(1)},
     timezone : {"none", "A", UnknownZone}]
MetaValues == {[kind |-> "missing", val |-> 0], [kind |-> "text", val |-> 0],
               [kind |-> "number", val |-> 0], [kind |-> "number", val |-> 2]}
Metas ==
    [isdict : {TRUE}, timezone : {"none", "B", UnknownZone},
     latitude : MetaValues, longitude : MetaValues] \cup {[isdict |-> FALSE]}
ReferenceTimings == [i \in 1..PrayerCount |-> Timing(ReferenceTimes[i])]

RequestInit ==
    /\ now = 0
    /\ app = "running"
    /\ tickets = [t \in TicketIds |-> NoTicket]
    /\ nextTicket = 1
    /\ live = {}
    /\ pending = 0
    /\ mainQueue = <<>>
    /\ dialogs = <<>>
    /\ status = "idle"
    /\ current_prayer_day = NoDay
    /\ current_weather = "none"
    /\ active_prayer_code = "none"
    /\ scheduler = NoScheduler
    /\ nextJobId = 1
    /\ raisedIn = "none"
    /\ calls = [t \in TicketIds |-> NoCalls]
    /\ lastEmitter = "none"
    /\ fired = {}
    /\ lastApply = NeverApplied
    /\ orphans = {}
    /\ config = StartConfig
    /\ current_location = BuildLocationFromConfig(config)
    /\ adhan = NoAdhan
    /\ quran = NoQuran
    /\ window = StartWindow
    /\ \E l \in LocationArgs, m \in Metas :
          lastCall = [NoCall EXCEPT !.op = "response",
                                    !.request = [NoRequest EXCEPT !.location = l,
                                                                  !.meta = m]]

\* fetch_prayer_times(location, target_date) on that response
FetchPrayerDayCall ==
    /\ lastCall.op = "response"
    /\ LET r == FetchPrayerDay(lastCall.request.location, ReferenceTimings,
                               lastCall.request.meta, FetchDate)
       IN lastCall' = [lastCall EXCEPT !.op = "fetch_prayer_times",
                                       !.request.requests = r.requests,
                                       !.request.exc = r.exc,
                                       !.request.prayers = r.prayers,
                                       !.request.tzinfo = r.tzinfo,
                                       !.request.returned = r.location]
    /\ UNCHANGED appVars

RequestSpec == RequestInit /\ [][FetchPrayerDayCall]_vars

\* PrayerScheduler driven directly by any client: constructed, then any
\* sequence of its methods while its timer thread runs
MaxJobId == 7

schedFrame == <<app, tickets, nextTicket, live, pending, mainQueue, dialogs, status,
                current_prayer_day, current_weather, active_prayer_code, calls, lastEmitter,
                lastApply, orphans, current_location, config, adhan, quran, window>>

SchedulerInit ==
    /\ now = 0
    /\ app = "running"
    /\ tickets = [t \in TicketIds |-> NoTicket]
    /\ nextTicket = 1
    /\ live = {}
    /\ pending = 0
    /\ mainQueue = <<>>
    /\ dialogs = <<>>
    /\ status = "idle"
    /\ current_prayer_day = NoDay
    /\ current_weather = "none"
    /\ active_prayer_code = "none"
    /\ \E z \in Zones : scheduler = NewScheduler(z)
    /\ nextJobId = 1
    /\ raisedIn = "none"
    /\ calls = [t \in TicketIds |-> NoCalls]
    /\ lastEmitter = "none"
    /\ fired = {}
    /\ lastApply = NeverApplied
    /\ orphans = {}
    /\ lastCall = NoCall
    /\ config = StartConfig
    /\ current_location = BuildLocationFromConfig(config)
    /\ adhan = NoAdhan
    /\ quran = NoQuran
    /\ window = StartWindow

Raised(exc, where) == IF exc # "none" THEN where ELSE "none"

\* scheduler.start()
CallStart ==
    /\ LET r == StartCall(scheduler)
       IN /\ scheduler' = r.s
          /\ raisedIn' = Raised(r.exc, "start")
    /\ lastCall' = [lastCall EXCEPT !.op = "start", !.running = scheduler.running]
    /\ UNCHANGED <<now, nextJobId, fired>>
    /\ UNCHANGED schedFrame

\* scheduler.shutdown()
CallShutdown ==
    /\ LET r == ShutdownCall(scheduler)
       IN /\ scheduler' = r.s
          /\ raisedIn' = Raised(r.exc, "shutdown")
    /\ lastCall' = [lastCall EXCEPT !.op = "shutdown", !.running = scheduler.running,
                                    !.mark = nextJobId]
    /\ UNCHANGED <<now, nextJobId, fired>>
    /\ UNCHANGED schedFrame

\* scheduler.schedule_prayers(prayers, callback) with the entries of the
\* scheduler's current local day
CallSchedulePrayersUpTo(maxId) ==
    /\ nextJobId + PrayerCount <= maxId + 1
    /\ LET day == [date |-> LocalDate(now, scheduler.tz), zone |-> scheduler.tz]
           r == SchedulePrayers(scheduler, Prayers(day), now, nextJobId)
       IN /\ scheduler' = r.s
          /\ nextJobId' = r.id
          /\ raisedIn' = Raised(r.exc, "schedule_prayers")
    /\ lastCall' = [lastCall EXCEPT !.op = "schedule_prayers",
                                    !.running = scheduler.running]
    /\ UNCHANGED <<now, fired>>
    /\ UNCHANGED schedFrame

CallSchedulePrayers == CallSchedulePrayersUpTo(MaxJobId)

\* scheduler.schedule_refresh(next_run, callback) with 00:05 of the next
\* local day
CallScheduleRefreshUpTo(maxId) ==
    /\ nextJobId <= maxId
    /\ LET r == ScheduleRefresh(scheduler, NextRefreshTime(now, scheduler.tz), nextJobId)
       IN /\ scheduler' = r.s
          /\ nextJobId' = r.id
          /\ raisedIn' = Raised(r.exc, "schedule_refresh")
    /\ lastCall' = [lastCall EXCEPT !.op = "schedule_refresh",
                                    !.running = scheduler.running]
    /\ UNCHANGED <<now, fired>>
    /\ UNCHANGED schedFrame

CallScheduleRefresh == CallScheduleRefreshUpTo(MaxJobId)

\* the timer thread of the running scheduler runs a due job
JobFires(j) ==
    /\ scheduler.running
    /\ j \in scheduler.store
    /\ j.run = now
    /\ scheduler' = [scheduler EXCEPT !.store = @ \ {j}]
    /\ fired' = fired \cup {[kind |-> j.kind, name |-> j.name, run |-> j.run, at |-> now]}
    /\ UNCHANGED <<now, nextJobId, raisedIn, lastCall>>
    /\ UNCHANGED schedFrame

\* the timer thread drops a job whose run date has passed
JobMisfires(j) ==
    /\ scheduler.running
    /\ j \in scheduler.store
    /\ j.run < now
    /\ scheduler' = [scheduler EXCEPT !.store = @ \ {j}]
    /\ UNCHANGED <<now, nextJobId, raisedIn, lastCall, fired>>
    /\ UNCHANGED schedFrame

TimePasses ==
    /\ now < MaxTime
    /\ scheduler.running => \A j \in scheduler.store : j.run > now
    /\ now' = now + 1
    /\ UNCHANGED <<scheduler, nextJobId, raisedIn, lastCall, fired>>
    /\ UNCHANGED schedFrame

SchedulerNext ==
    \/ CallStart
    \/ CallShutdown
    \/ CallSchedulePrayers
    \/ CallScheduleRefresh
    \/ \E j \in scheduler.store : JobFires(j)
    \/ \E j \in scheduler.store : JobMisfires(j)
    \/ TimePasses

SchedulerSpec == SchedulerInit /\ [][SchedulerNext]_vars

\* the job store starts to fail on removals, or works again
StoreBreaks(broken) ==
    /\ scheduler.broken # broken
    /\ scheduler' = [scheduler EXCEPT !.broken = broken]
    /\ UNCHANGED <<now, nextJobId, raisedIn, lastCall, fired>>
    /\ UNCHANGED schedFrame

\* enough job ids for schedule_prayers to run twice and schedule_refresh on top
MaxFaultJobId == 11

FaultSchedulePrayers == CallSchedulePrayersUpTo(MaxFaultJobId)
FaultScheduleRefresh == CallScheduleRefreshUpTo(MaxFaultJobId)

FaultNext ==
    \/ CallStart
    \/ CallShutdown
    \/ FaultSchedulePrayers
    \/ FaultScheduleRefresh
    \/ \E broken \in BOOLEAN : StoreBreaks(broken)

\* PrayerScheduler over a job store that may fail, its methods called in
\* succession before any job is due
FaultSpec == SchedulerInit /\ [][FaultNext]_vars

\* ------------------------------------------------------------ properties
PrayerJobs(s) == {j \in s.store : j.kind = "prayer"}
RefreshJobs(s) == {j \in s.store : j.kind = "refresh"}
Ids(S) == {j.id : j \in S}
Range(q) == {q[i] : i \in 1..Len(q)}
Entries(S) == {[name |-> j.name, time |-> j.run] : j \in S}
DayEntries(day) == {Prayers(day)[i] : i \in 1..PrayerCount}

\* the step is a run of _handle_refresh_success for ticket t
SuccessStep(t) == calls'[t].succ = calls[t].succ + 1
\* the step is a run of _handle_refresh_error for ticket t
ErrorStep(t) == calls'[t].err = calls[t].err + 1

Outstanding == {"queued", "running", "done", "posted", "handling"}

\* C1: for every ticket at most one handler has run and at most once; no
\* handler has run before the outcome is delivered, and exactly one has run,
\* once, when the outcome has been delivered
C1_ExactlyOneHandler ==
    \A t \in TicketIds :
        /\ calls[t].succ + calls[t].err <= 1
        /\ (tickets[t].st \in {"handling", "handled"}) <=> (calls[t].succ + calls[t].err = 1)

W_C1 == \E t1, t2 \in TicketIds : calls[t1].succ = 1 /\ calls[t2].err = 1

\* C2: every handler that has run ran on the main thread, whichever thread
\* emitted the dispatcher's signal
C2_HandlersOnMain == \A t \in TicketIds : calls[t].thr \in {"none", "main"}

W_C2 == lastEmitter = "worker" /\ \E t \in TicketIds : calls[t].thr = "main"

\* C3: the armed prayer jobs are those of the last schedule_prayers call: one
\* job at most per entry of the day applied last, none for any other entry,
\* and, while the scheduler runs, a job for every entry still to come
C3_ReplaceAll ==
    scheduler.tz # "none" =>
        /\ Entries(PrayerJobs(scheduler)) \subseteq
              {p \in DayEntries(current_prayer_day) : p.time >= now}
        /\ Cardinality(PrayerJobs(scheduler)) = Cardinality(Entries(PrayerJobs(scheduler)))
        /\ scheduler.running =>
              {p \in DayEntries(current_prayer_day) : p.time > now}
                  \subseteq Entries(PrayerJobs(scheduler))

W_C3 ==
    /\ nextJobId = 2 * (PrayerCount + 1) + 1
    /\ lastApply.reused
    /\ Cardinality(PrayerJobs(scheduler)) = PrayerCount

\* C4: a run of schedule_prayers leaves a job for an entry exactly when the
\* entry's instant is strictly later than now, and a prayer callback only
\* runs for a job that is due, with that job's name
C4_OnlyUpcoming ==
    [][/\ \A t \in TicketIds : SuccessStep(t) =>
             \A p \in DayEntries(current_prayer_day') :
                 (p \in Entries(PrayerJobs(scheduler'))) <=> (p.time > now)
       /\ (Len(mainQueue') = Len(mainQueue) + 1 /\ mainQueue'[Len(mainQueue')].kind = "prayer")
             => \E j \in PrayerJobs(scheduler) :
                   /\ j.run = now
                   /\ j.name = mainQueue'[Len(mainQueue')].name
                   /\ j \notin scheduler'.store
                   /\ [name |-> j.name, time |-> j.run] \in DayEntries(current_prayer_day)
      ]_vars

W_C4 ==
    /\ nextJobId = PrayerCount + 2
    /\ \E f \in fired : f.kind = "prayer" /\ f.name = "Dhuhr"
    /\ ~ \E f \in fired : f.kind = "prayer" /\ f.name = "Fajr"

\* C5: a run of schedule_refresh that finds its previous refresh job still
\* pending leaves exactly one refresh job armed, the new one
C5_OneRefreshJob ==
    [][\A t \in TicketIds :
          (SuccessStep(t) /\ Found(scheduler, tickets[t].day.zone).refresh = "live") =>
              /\ raisedIn' = "none"
              /\ Cardinality(RefreshJobs(scheduler')) = 1
              /\ \A j \in RefreshJobs(scheduler') :
                    /\ j.id = scheduler'.refresh_job_id
                    /\ j.id >= nextJobId
                    /\ j.run = NextRefreshTime(Prayers(tickets[t].day)[1].time,
                                               tickets[t].day.zone)
      ]_vars

W_C5 ==
    /\ lastApply.refresh = "live"
    /\ Cardinality(RefreshJobs(scheduler)) = 1
    /\ scheduler.running

\* C6: a run of _handle_refresh_error, and the closing of its dialog, leave
\* the scheduler as it was: same instance, same armed jobs, same handles
C6_ErrorLeavesScheduler ==
    [][((\E t \in TicketIds : ErrorStep(t))
          \/ (Len(dialogs') < Len(dialogs) /\ app' = "running"))
        => UNCHANGED <<scheduler, nextJobId>>]_vars

W_C6 ==
    /\ dialogs # <<>>
    /\ status \in {"error_fetch", "error_location"}
    /\ scheduler.running
    /\ Cardinality(PrayerJobs(scheduler)) = 3
    /\ Cardinality(RefreshJobs(scheduler)) = 1

\* C7: a successful refresh cycle that the refresh job started leaves a new
\* refresh job armed for 00:05 of the day after the applied day
C7_DailyRollover ==
    [][\A t \in TicketIds :
          (SuccessStep(t) /\ tickets[t].src = "job") =>
              \E j \in RefreshJobs(scheduler') :
                  /\ j.id >= nextJobId
                  /\ j.run = NextRefreshTime(Prayers(tickets[t].day)[1].time,
                                             tickets[t].day.zone)
      ]_vars

\* C8: a run of schedule_refresh after the previous refresh job has fired
\* raises nothing and leaves exactly the new refresh job armed
C8_FiredRefreshNoOp ==
    [][\A t \in TicketIds :
          (SuccessStep(t) /\ Found(scheduler, tickets[t].day.zone).refresh = "gone") =>
              /\ raisedIn' = "none"
              /\ Cardinality(RefreshJobs(scheduler')) = 1
              /\ \A j \in RefreshJobs(scheduler') :
                    j.id = scheduler'.refresh_job_id /\ j.id >= nextJobId
      ]_vars

\* C9: a run of schedule_prayers after some of the previous prayer jobs have
\* fired raises nothing, keeps no old handle, and arms the full new set
C9_FiredPrayersNoOp ==
    [][\A t \in TicketIds :
          (SuccessStep(t) /\ Found(scheduler, tickets[t].day.zone).stale) =>
              /\ raisedIn' # "schedule_prayers"
              /\ Range(scheduler'.jobs) \cap Range(scheduler.jobs) = {}
              /\ Range(scheduler'.jobs) = Ids(PrayerJobs(scheduler'))
              /\ Entries(PrayerJobs(scheduler')) =
                    {p \in DayEntries(tickets[t].day) : p.time > now}
      ]_vars

W_C9 ==
    /\ lastApply.stale
    /\ raisedIn # "schedule_prayers"
    /\ PrayerJobs(scheduler) # {}
    /\ scheduler.running

\* C10: the live set holds exactly the tickets whose operation is outstanding
C10_LiveIffOutstanding ==
    live = {t \in TicketIds : tickets[t].st \in Outstanding}

\* C11: the handler that runs is the one of the work's outcome: the success
\* handler only for a returned value, which it receives, the error handler
\* only for a raised exception, which it receives and which goes no further;
\* and a delivered outcome runs one of them
C11_HandlerMatchesOutcome ==
    [][\A t \in TicketIds :
          /\ SuccessStep(t) =>
                /\ tickets[t].out = "ok"
                /\ ~ErrorStep(t)
                /\ current_prayer_day' = tickets[t].day
          /\ ErrorStep(t) =>
                /\ tickets[t].out \in {"RuntimeError", "RequestException"}
                /\ ~SuccessStep(t)
                /\ dialogs' = Append(dialogs, t)
                /\ status' = IF tickets[t].out = "RuntimeError"
                             THEN "error_location" ELSE "error_fetch"
                /\ raisedIn' = raisedIn
                /\ app' = app
          /\ (tickets[t].st = "posted" /\ tickets'[t].st # "posted") =>
                (SuccessStep(t) \/ ErrorStep(t))
      ]_vars

W_C11 ==
    /\ status = "error_fetch"
    /\ dialogs # <<>>
    /\ current_prayer_day # NoDay
    /\ raisedIn = "none"
    /\ app = "running"

\* the local time of day of an instant in zone z, in ticks after midnight
TimeOfDay(inst, z) == (inst + UtcOff(z)) % DayLen

\* C12: right after a refresh success is applied at instant t the armed
\* prayer jobs are one job per entry of the new day with time > t, and one
\* refresh job is armed, at 00:05 local time of the day after the first
\* prayer's date
C12_SuccessArmsAll ==
    [][\A t \in TicketIds :
          SuccessStep(t) =>
              LET day == tickets[t].day
                  upcoming == {p \in DayEntries(day) : p.time > now}
              IN /\ Entries(PrayerJobs(scheduler')) = upcoming
                 /\ Cardinality(PrayerJobs(scheduler')) = Cardinality(upcoming)
                 /\ Cardinality(RefreshJobs(scheduler')) = 1
                 /\ \A j \in RefreshJobs(scheduler') :
                       /\ LocalDate(j.run, day.zone) =
                             LocalDate(Prayers(day)[1].time, day.zone) + 1
                       /\ TimeOfDay(j.run, day.zone) = RefreshOffset
      ]_vars

\* C13: _next_refresh_time(reference) is the instant whose local date in
\* reference's zone is the day after reference's local date and whose local
\* time of day is 00:05
C13_NextRefreshTime ==
    lastCall.op = "_next_refresh_time" =>
        /\ LocalDate(lastCall.ret, lastCall.zone) =
              LocalDate(lastCall.arg, lastCall.zone) + 1
        /\ TimeOfDay(lastCall.ret, lastCall.zone) = RefreshOffset

\* a reference late in the local day of a zone ahead of UTC, whose local
\* date is not the UTC date, on the last day the bound reaches
W_C13 ==
    /\ lastCall.op = "_next_refresh_time"
    /\ lastCall.zone = "B"
    /\ LocalDate(lastCall.arg, "B") # LocalDate(lastCall.arg, "A")
    /\ lastCall.ret > lastCall.arg
    /\ lastCall.ret > MaxReference

\* C14: right after a successful refresh is applied one scheduler runs, in
\* the zone of the applied day, and no other instance runs: the instance
\* found is kept as it is when its zone is the new zone, and is shut down
\* when it is replaced
C14_OneSchedulerInZone ==
    [][\A t \in TicketIds :
          SuccessStep(t) =>
              LET z == tickets[t].day.zone
              IN /\ scheduler'.running
                 /\ scheduler'.tz = z
                 /\ orphans' = {}
                 /\ scheduler.tz = z => EnsureScheduler(scheduler, z) = scheduler
                 /\ scheduler.tz \notin {z, "none"} =>
                       \A o \in Retired(scheduler, z) : ~o.running /\ o.store = {}
      ]_vars

W_C14 ==
    /\ nextJobId = 2 * (PrayerCount + 1) + 1
    /\ ~lastApply.reused
    /\ scheduler.running
    /\ scheduler.tz = current_prayer_day.zone
    /\ orphans = {}

\* C15: shutdown() leaves no armed job, and no job armed before a shutdown()
\* fires after it, also when the scheduler is started again
C15_ShutdownCancelsAll ==
    [][/\ CallShutdown => scheduler'.store = {}
       /\ \A j \in scheduler.store : JobFires(j) => j.id >= lastCall.mark
      ]_vars

\* C16: start() on a running scheduler and shutdown() on a stopped one raise
\* nothing and leave the scheduler as it is, so a second start() after a
\* start() and a second shutdown() after a shutdown() change nothing
C16_StartShutdownIdempotent ==
    [][/\ (CallStart /\ scheduler.running) =>
             scheduler' = scheduler /\ raisedIn' = "none"
       /\ (CallShutdown /\ ~scheduler.running) =>
             scheduler' = scheduler /\ raisedIn' = "none"
       /\ CallStart => StartCall(scheduler') = [s |-> scheduler', exc |-> "none"]
       /\ CallShutdown => ShutdownCall(scheduler') = [s |-> scheduler', exc |-> "none"]
      ]_vars

W_C16 ==
    /\ lastCall.op = "start"
    /\ lastCall.running
    /\ scheduler.running
    /\ PrayerJobs(scheduler) # {}
    /\ RefreshJobs(scheduler) # {}
    /\ raisedIn = "none"

\* C17: over all scheduler instances that still run, at most five prayer
\* jobs and at most one refresh job are armed
C17_JobCaps ==
    /\ Cardinality({j \in Jobs : j.kind = "prayer"}) <= PrayerCount
    /\ Cardinality({j \in Jobs : j.kind = "refresh"}) <= 1

W_C17 ==
    /\ nextJobId = 2 * (PrayerCount + 1) + 1
    /\ ~lastApply.reused
    /\ Cardinality({j \in Jobs : j.kind = "prayer"}) = PrayerCount
    /\ Cardinality({j \in Jobs : j.kind = "refresh"}) = 1

\* C18: the prayer callback never runs twice for one prayer instant: when a
\* prayer job fires, no job of that name and instant has fired before
C18_NoDuplicateNotification ==
    [][\A j \in Jobs :
          (j.kind = "prayer" /\ FireJob(j)) =>
              ~ \E f \in fired : f.kind = "prayer" /\ f.name = j.name /\ f.run = j.run
      ]_vars

\* a refresh re-armed the day after some of its prayers had fired, and the
\* next prayer has fired since
W_C18 ==
    /\ lastApply.stale
    /\ Len(scheduler.jobs) = PrayerCount - 1
    /\ Cardinality(PrayerJobs(scheduler)) = PrayerCount - 2
    /\ Cardinality({f \in fired : f.kind = "prayer"}) = 2

\* C19: a cycle whose location and prayer times are obtained and whose
\* weather fetch raises is applied: its task returns a result without
\* weather, the success handler runs for it, stores no weather, surfaces no
\* error, and leaves the prayer jobs and the refresh job armed
C19_WeatherFailureApplied ==
    [][\A t \in TicketIds :
          /\ tickets'[t].wx = "raises" =>
                tickets'[t].out = "ok" /\ tickets'[t].weather = "none"
          /\ (tickets[t].wx = "raises" /\ tickets[t].st \in {"done", "posted"}
                /\ tickets'[t].st \notin {"done", "posted"}) =>
                /\ SuccessStep(t)
                /\ ~ErrorStep(t)
                /\ current_weather' = "none"
                /\ status' = "updated"
                /\ dialogs' = dialogs
                /\ raisedIn' = "none"
                /\ Entries(PrayerJobs(scheduler')) =
                      {p \in DayEntries(tickets[t].day) : p.time > now}
                /\ Cardinality(RefreshJobs(scheduler')) = 1
      ]_vars

\* the message _handle_refresh_error shows for each kind of failure
MessageOfKind(stage) == IF stage = "location" THEN "error_location" ELSE "error_fetch"

\* C20: the message surfaced is the one of the failure's kind: the location
\* message when no location could be determined, the fetch message when
\* the prayer-time collaborator failed
C20_MessageMatchesKind ==
    [][\A t \in TicketIds :
          ErrorStep(t) => status' = MessageOfKind(tickets[t].stage)
      ]_vars

\* ticket u's outcome has been delivered to its handler
Delivered(u) == calls[u].succ + calls[u].err = 1

\* C21: when the outcome of a cycle is delivered after the outcome of
\* another cycle, whichever was issued first: a success leaves the PrayerDay
\* of this cycle, one armed job per entry of it still to come, one refresh
\* job for the day after it, and no job armed before this delivery; an error
\* leaves the PrayerDay and the jobs of the success delivered before it
C21_LastAppliedWins ==
    [][\A t \in TicketIds :
          (\E u \in TicketIds \ {t} : Delivered(u)) =>
              /\ SuccessStep(t) =>
                    LET day == tickets[t].day
                    IN /\ current_prayer_day' = day
                       /\ \A j \in Jobs' : j.id >= nextJobId
                       /\ Entries(PrayerJobs(scheduler')) =
                             {p \in DayEntries(day) : p.time > now}
                       /\ Cardinality(RefreshJobs(scheduler')) = 1
                       /\ \A j \in RefreshJobs(scheduler') :
                             j.run = NextRefreshTime(Prayers(day)[1].time, day.zone)
              /\ ErrorStep(t) => UNCHANGED <<current_prayer_day, scheduler, orphans>>
      ]_vars

\* a refresh call posted to the main loop that the bound on tickets keeps
\* from running: what is queued behind it is not followed further
BeyondBound ==
    /\ mainQueue # <<>>
    /\ Head(mainQueue).kind = "refresh"
    /\ nextTicket \notin DOMAIN tickets

\* C22: every ticket whose work has ended eventually has its handler run on
\* the main thread, whatever happens to the scheduler and also when the
\* application quits and _cleanup runs while the work is in flight
C22_ResultStillDelivered ==
    \A t \in TicketIds :
        (tickets[t].st \in {"done", "posted"}) ~>
            ((Delivered(t) /\ calls[t].thr = "main") \/ BeyondBound)

PrayerNames == Range(PRAYER_ORDER)

\* C23: the step of a firing prayer job, on the timer thread, does not run
\* the notification logic, which only a step of the main loop runs, with the
\* name at the head of its queue; the firing queues one call at most; and
\* after a prayer job has fired the notification logic eventually runs with
\* its name, unless the application stops
C23_TriggerOnMainOnce ==
    /\ [][/\ \A j \in Jobs : TriggerFire(j) =>
                /\ active_prayer_code' = active_prayer_code
                /\ Len(mainQueue') <= Len(mainQueue) + 1
          /\ active_prayer_code' # active_prayer_code =>
                /\ Consumes("prayer")
                /\ active_prayer_code' = Head(mainQueue).name
         ]_vars
    /\ \A n \in PrayerNames :
          (\E f \in fired : f.kind = "prayer" /\ f.name = n /\ f.at = now) ~>
              (active_prayer_code = n \/ app # "running" \/ BeyondBound)

\* C24: no step of task() on a pool worker writes current_location, the
\* in-memory config or its persisted file
C24_WorkerWritesNothing ==
    [][(\E detect \in Detections : ResolveLocationCall(detect)) =>
          UNCHANGED <<current_location, config, adhan, quran, window>>]_vars

\* C27: with automatic location on, _resolve_location returns the detected
\* location when detection succeeds, else the last-known location when there
\* is one, else the configured location when there is one, else raises
\* RuntimeError; with automatic location off it returns the manual location
\* when its city and country are both non-empty and raises RuntimeError
\* otherwise
C27_LocationResolution ==
    lastCall.op = "_resolve_location" =>
        LET r == lastCall.resolve
            returns(l) == r.exc = "none" /\ r.loc = l
            fails == r.exc = "RuntimeError" /\ IsNone(r.loc)
        IN IF r.auto
           THEN IF ~IsNone(r.detect) THEN returns(r.detect)
                ELSE IF ~IsNone(r.current) THEN returns(r.current)
                ELSE IF ~IsNone(r.configured) THEN returns(r.configured)
                ELSE fails
           ELSE IF ~IsNone(r.current) /\ r.current.city # "" /\ r.current.country # ""
                THEN returns(r.current)
                ELSE fails

\* detection failed with no last-known location, and the configured one was
\* returned
W_C27 ==
    /\ lastCall.op = "_resolve_location"
    /\ lastCall.resolve.auto
    /\ IsNone(lastCall.resolve.detect)
    /\ IsNone(lastCall.resolve.current)
    /\ ~IsNone(lastCall.resolve.configured)
    /\ lastCall.resolve.loc = lastCall.resolve.configured
    /\ lastCall.resolve.exc = "none"

\* the instants of the entries, in order
StrictlyIncreasing(prayers) ==
    \A i \in 1..(Len(prayers) - 1) : prayers[i].time < prayers[i + 1].time

\* C25: every PrayerDay returned by fetch_prayer_times has five entries,
\* named Fajr, Dhuhr, Asr, Maghrib, Isha in that order, with strictly
\* increasing instants
C25_FiveIncreasing ==
    (lastCall.op = "fetch_prayer_times" /\ lastCall.fetch.exc = "none") =>
        /\ Len(lastCall.fetch.prayers) = 5
        /\ \A i \in 1..5 : lastCall.fetch.prayers[i].name = PRAYER_ORDER[i]
        /\ StrictlyIncreasing(lastCall.fetch.prayers)

\* C26: next_prayer(now) returns the first entry whose time is strictly
\* later than now: Fajr when now is before Fajr, the entry after a prayer
\* when now is that prayer's instant, and none when now is at or after Isha
C26_NextPrayer ==
    lastCall.op = "next_prayer" =>
        LET prayers == lastCall.fetch.prayers
            nw == lastCall.arg
            ret == lastCall.ret
        IN /\ ret # 0 =>
                 /\ prayers[ret].time > nw
                 /\ \A i \in 1..(ret - 1) : prayers[i].time <= nw
           /\ ret = 0 => \A i \in 1..PrayerCount : prayers[i].time <= nw
           /\ nw < prayers[1].time => ret = 1
           /\ \A i \in 1..(PrayerCount - 1) : nw = prayers[i].time => ret = i + 1
           /\ nw >= prayers[PrayerCount].time => ret = 0

\* C28: the stored PrayerDay changes only in a run of the success handler,
\* which stores the day of its result as a whole, together with its weather;
\* a run of the error handler leaves the stored PrayerDay and the stored
\* weather as they were, and so does every other operation
C28_DayReplacedOnSuccessOnly ==
    [][/\ current_prayer_day' # current_prayer_day =>
             \E t \in TicketIds :
                 /\ SuccessStep(t)
                 /\ tickets[t].out = "ok"
                 /\ current_prayer_day' = tickets[t].day
                 /\ current_weather' = tickets[t].weather
       /\ current_weather' # current_weather => \E t \in TicketIds : SuccessStep(t)
       /\ \A t \in TicketIds :
             ErrorStep(t) => UNCHANGED <<current_prayer_day, current_weather>>
      ]_vars

\* a cycle failed after a cycle had stored a day and its weather
W_C28 ==
    /\ status \in {"error_fetch", "error_location"}
    /\ dialogs # <<>>
    /\ current_prayer_day # NoDay
    /\ current_weather = "info"
    /\ \E t \in TicketIds : calls[t].err = 1

\* C29: a call of schedule_prayers or schedule_refresh that has a job to
\* remove while removing fails for another reason than job-not-found raises
\* nothing and arms its new jobs: schedule_prayers one job per entry still
\* to come, schedule_refresh the new refresh job
C29_CancelFailureAbsorbed ==
    [][/\ (FaultSchedulePrayers /\ scheduler.broken /\ scheduler.jobs # <<>>) =>
             /\ raisedIn' = "none"
             /\ Cardinality(PrayerJobs(scheduler')) >=
                   Cardinality({i \in 1..PrayerCount :
                                   Localize(LocalDate(now, scheduler.tz), TimeTable[i],
                                            scheduler.tz) > now})
             /\ nextJobId' = nextJobId + PrayerCount
       /\ (FaultScheduleRefresh /\ scheduler.broken /\ scheduler.refresh_job_id # 0) =>
             /\ raisedIn' = "none"
             /\ \E j \in RefreshJobs(scheduler') : j.id = nextJobId
             /\ scheduler'.refresh_job_id = nextJobId
      ]_vars

\* a work item is taken by a worker in this step
Taken(t) == tickets[t].st = "queued" /\ tickets'[t].st = "running"

\* C30: never more than PoolSize work items run; a queued work item is taken
\* only while a worker is free, and it is taken eventually unless PoolSize
\* works occupy the pool; and every ticket whose work has returned or raised
\* has its outcome delivered, whatever the works of the other tickets do,
\* a work that never returns included
C30_PoolOfTwo ==
    /\ [](Cardinality(Running) <= PoolSize)
    /\ [][\A t \in PoolTickets : Taken(t) => Cardinality(Running) < PoolSize]_vars
    /\ \A t \in PoolTickets :
          (tickets[t].st = "queued") ~>
              (tickets[t].st # "queued" \/ Cardinality(Running) = PoolSize
                 \/ app # "running")
    /\ \A t \in PoolTickets :
          (tickets[t].st \in {"done", "posted"}) ~> (Delivered(t) \/ BeyondBound)

\* C31: a PrayerDay returned by fetch_prayer_times has the zone the response
\* reports when that is a known zone, else the zone of the location passed
\* in when that is a known zone, else UTC: the returned location carries
\* that name and the five instants are the timings localized to that zone
C31_ZoneOfDay ==
    (lastCall.op = "fetch_prayer_times" /\ lastCall.request.exc = "none") =>
        LET location == lastCall.request.location
            meta == lastCall.request.meta
            zone == IF meta.timezone \in KnownZones THEN meta.timezone
                    ELSE IF location.timezone \in KnownZones THEN location.timezone
                    ELSE "UTC"
        IN /\ lastCall.request.returned.timezone = zone
           /\ lastCall.request.tzinfo = zone
           /\ \A i \in 1..PrayerCount :
                 lastCall.request.prayers[i].time = Localize(FetchDate, TimeTable[i], zone)

\* C32: a call of fetch_prayer_times issues one request, to the coordinates
\* endpoint when the location has a latitude and a longitude and to the
\* by-city endpoint otherwise, and the location of the PrayerDay it returns
\* has the latitude and the longitude that the meta of the response reports
C32_OneRequest ==
    lastCall.op = "fetch_prayer_times" =>
        LET location == lastCall.request.location
            meta == lastCall.request.meta
            returned == lastCall.request.returned
        IN /\ Len(lastCall.request.requests) = 1
           /\ lastCall.request.requests[1] =
                 IF location.latitude.some /\ location.longitude.some
                 THEN ALADHAN_TIMINGS_URL ELSE ALADHAN_TIMINGS_BY_CITY_URL
           /\ lastCall.request.exc = "none" =>
                 /\ meta.latitude.kind = "number" =>
                       returned.latitude = Float(meta.latitude.val)
                 /\ meta.longitude.kind = "number" =>
                       returned.longitude = Float(meta.longitude.val)

\* C33: a run of _handle_prayer_trigger sets the status to the body of the
\* notification and leaves _active_adhan_dialog on a new box that is on
\* screen; a click on Snooze leaves the player stopped and the box closed, a
\* click on Dismiss leaves the box closed and the player as it was; the
\* deletion of a box leaves _active_adhan_dialog None, and once a box is
\* closed _active_adhan_dialog is None at some later moment
C33_NotificationButtons ==
    /\ [][/\ \A name \in DOMAIN NotificationBody, started \in BOOLEAN :
               RunPrayerTrigger(name, started) =>
                   /\ status' = NotificationBody[name]
                   /\ adhan'.active_adhan_dialog \notin DOMAIN adhan.boxes
                   /\ adhan'.active_adhan_dialog \in DOMAIN adhan'.boxes
                   /\ adhan'.boxes[adhan'.active_adhan_dialog] = "visible"
          /\ \A id \in 1..MaxBoxes :
               /\ ButtonClicked(id, "Snooze") =>
                     ~adhan'.playing /\ adhan'.boxes[id] = "closed"
               /\ ButtonClicked(id, "Dismiss") =>
                     adhan'.playing = adhan.playing /\ adhan'.boxes[id] = "closed"
               /\ BoxDestroyed(id) => adhan'.active_adhan_dialog = 0
         ]_vars
    /\ \A id \in 1..MaxBoxes :
          (id \in DOMAIN adhan.boxes /\ adhan.boxes[id] = "closed" /\ lastCall.arg = id
             /\ lastCall.op \in {"Snooze", "Dismiss"})
              ~> (adhan.active_adhan_dialog = 0)

\* Dismiss was clicked on the box of the notification while the clip plays
W_C33 ==
    /\ lastCall.op = "Dismiss"
    /\ adhan.boxes = <<"closed">>
    /\ adhan.playing
    /\ status = NotificationBody["Fajr"]

\* C36: every box on screen is the one _active_adhan_dialog refers to, so
\* at most one is on screen; and when the clip ends no box stays on screen
C36_OneTrackedDialog ==
    /\ [](\A id \in DOMAIN adhan.boxes :
             adhan.boxes[id] = "visible" => adhan.active_adhan_dialog = id)
    /\ [][PlaybackEnds =>
             \A id \in DOMAIN adhan'.boxes : adhan'.boxes[id] # "visible"]_vars

\* C37: after every step what the reader shows belongs to the surah requested last, and the
\* outcome of a download whose request is not the last request changes
\* neither what is shown nor the cache
C37_StaleSurahDropped ==
    [][/\ quran'.display.kind # "none" =>
             quran'.display.surah = quran'.pending_surah_number
       /\ \A d \in Downloads, ok \in BOOLEAN :
             (SurahOutcome(d, ok) /\ d.request < quran.issued) =>
                 /\ quran'.display = quran.display
                 /\ quran'.surah_cache = quran.surah_cache]_vars

\* C38: a close event of the main window while the tray icon exists and the
\* system tray is available leaves the application and the scheduler with
\* its armed jobs as they were; before quit was requested it hides the
\* window and the handler returns False, the handler returns True only when
\* quit was requested, and the minimize hint has been shown once at most
C38_CloseKeepsRunning ==
    [][(CloseEvent(TRUE) /\ window.tray_icon) =>
           /\ app' = app
           /\ scheduler' = scheduler
           /\ app = "running" =>
                 /\ ~lastCall'.running
                 /\ ~window'.visible
                 /\ ~window'.closed
           /\ lastCall'.running => app = "quit"
           /\ window'.hints <= 1
      ]_vars

\* the window was closed while jobs are armed: it is hidden, the hint was shown
W_C38 ==
    /\ lastCall.op = "closeEvent"
    /\ ~lastCall.running
    /\ window.tray_hint_shown
    /\ window.hints = 1
    /\ ~window.visible
    /\ app = "running"
    /\ scheduler.running
    /\ scheduler.store # {}

\* a refresh cycle is in flight: its event waits in the main loop, its work
\* is queued, runs or waits for delivery, or its handler has not returned
CycleInFlight ==
    \/ \E i \in DOMAIN mainQueue : mainQueue[i].kind = "refresh"
    \/ \E t \in TicketIds : tickets[t].st \in Outstanding
    \/ pending # 0

\* C34: while the application runs, a PrayerDay has been applied and no
\* refresh cycle is in flight, exactly one refresh job is armed for the timer
\* thread, the one _refresh_job_id names
C34_RefreshNeverLost ==
    (app = "running" /\ current_prayer_day # NoDay /\ ~CycleInFlight) =>
        /\ scheduler.running
        /\ Cardinality({j \in Jobs : j.kind = "refresh"}) = 1
        /\ \A j \in RefreshJobs(scheduler) : j.id = scheduler.refresh_job_id

\* C35: the refresh job a successful cycle arms has its instant strictly
\* later than the instant of arming, and the timer thread never drops a
\* refresh job as missed
C35_RefreshInFuture ==
    [][/\ \A t \in TicketIds :
             (SuccessStep(t) /\ raisedIn' = "none") =>
                 \A j \in RefreshJobs(scheduler') : j.run > now
       /\ \A j \in Jobs : MisfireJob(j) => j.kind # "refresh"]_vars

====
